---- MODULE Spec2Model ----
(***************************************************************************)
(* gke-cluster-notifications: the Pub/Sub push handler (src/main.rs), the  *)
(* envelope / attributes / payload decoders (src/message.rs,               *)
(* src/message/attributes.rs, src/message/attributes/payload.rs) and the   *)
(* renderers built on them.                                                *)
(*                                                                         *)
(* Conventions.  Option<T> is None / Some(v); Result<T, E> is Ok(v) /      *)
(* Err(e).  A Rust String is a TLA+ string; the wire text of `data` is a   *)
(* sequence of one-character strings so that base64 can be decoded symbol  *)
(* by symbol; a `resource` path is a sequence of pieces in which the       *)
(* literal "nodePools/" is a piece of its own, so that split_once can look *)
(* for it.  A JSON object is a function from its keys to tagged values.    *)
(***************************************************************************)
EXTENDS Integers, Sequences, FiniteSets, TLC

VARIABLES
    req,            \* the JSON body of the inbound POST /
    env,            \* GCP_PROJECT, SLACK_WEBHOOK and whether DEBUG is enabled
    pc,             \* position of the request: extract, handler, await, done, rejected
    psm,            \* what the Json extractor hands to the handler (None before)
    message,        \* handler local `message` (None before the handler runs)
    log_entry,      \* handler local `log_entry`
    slack_message,  \* handler local `slack_message`
    slack_response, \* handler local `slack_response`
    logs,           \* tracing events emitted so far, in order
    posts           \* webhook POSTs issued so far, in order

vars == <<req, env, pc, psm, message, log_entry, slack_message, slack_response, logs, posts>>

----------------------------------------------------------------------------
(* Option and Result *)

None == [some |-> FALSE]
Some(x) == [some |-> TRUE, v |-> x]
Ok(x) == [ok |-> TRUE, v |-> x]
Err(e) == [ok |-> FALSE, e |-> e]

\* Option::unwrap_or
UnwrapOr(o, d) == IF o.some THEN o.v ELSE d

\* Result::and_then, and the ? operator: the error is passed on
AndThen(r, F(_)) == IF r.ok THEN F(r.v) ELSE r

\* Result::map
MapOk(r, F(_)) == IF r.ok THEN Ok(F(r.v)) ELSE r

----------------------------------------------------------------------------
(* Bounds of the explored inputs *)

\* longest `data` wire text (in base64 symbols) drawn by InitData
MaxDataLen == 4

----------------------------------------------------------------------------
(* base64 (BASE64_STANDARD: padding required, trailing bits rejected) *)

B64Alphabet ==
    << "A","B","C","D","E","F","G","H","I","J","K","L","M","N","O","P",
       "Q","R","S","T","U","V","W","X","Y","Z","a","b","c","d","e","f",
       "g","h","i","j","k","l","m","n","o","p","q","r","s","t","u","v",
       "w","x","y","z","0","1","2","3","4","5","6","7","8","9","+","/" >>

IsB64Symbol(c) == \E i \in 1..64 : B64Alphabet[i] = c

B64Value(c) == (CHOOSE i \in 1..64 : B64Alphabet[i] = c) - 1

\* the bytes of one group of four symbols, the last one or two of which may be "="
B64Quad(q) ==
    LET a == B64Value(q[1])
        b == B64Value(q[2])
        c == IF q[3] = "=" THEN 0 ELSE B64Value(q[3])
        d == IF q[4] = "=" THEN 0 ELSE B64Value(q[4])
        n == ((a * 64 + b) * 64 + c) * 64 + d
        b1 == n \div 65536
        b2 == (n \div 256) % 256
        b3 == n % 256
    IN  IF q[3] = "=" THEN <<b1>>
        ELSE IF q[4] = "=" THEN <<b1, b2>>
        ELSE <<b1, b2, b3>>

\* a group is well formed: symbols, then canonical padding, with no stray bits
B64QuadOk(q, last) ==
    /\ IsB64Symbol(q[1])
    /\ IsB64Symbol(q[2])
    /\ \/ IsB64Symbol(q[3]) /\ IsB64Symbol(q[4])
       \/ last /\ IsB64Symbol(q[3]) /\ q[4] = "=" /\ B64Value(q[3]) % 4 = 0
       \/ last /\ q[3] = "=" /\ q[4] = "=" /\ B64Value(q[2]) % 16 = 0

RECURSIVE B64Bytes(_)
B64Bytes(s) ==
    IF s = <<>> THEN <<>>
    ELSE B64Quad(SubSeq(s, 1, 4)) \o B64Bytes(SubSeq(s, 5, Len(s)))

\* BASE64_STANDARD.decode(str)
Base64Decode(s) ==
    IF /\ Len(s) % 4 = 0
       /\ \A g \in 1..(Len(s) \div 4) :
              B64QuadOk(SubSeq(s, 4 * g - 3, 4 * g), g = Len(s) \div 4)
    THEN Ok(B64Bytes(s))
    ELSE Err("base64 decode error")

----------------------------------------------------------------------------
(* UTF-8 *)

IsCont(b) == b >= 128 /\ b <= 191

\* std::str::from_utf8 validity of a byte sequence
RECURSIVE Utf8Valid(_)
Utf8Valid(bs) ==
    IF bs = <<>> THEN TRUE
    ELSE LET b == bs[1]
             n == Len(bs)
         IN  IF b < 128 THEN Utf8Valid(Tail(bs))
             ELSE IF b >= 194 /\ b <= 223
                  THEN n >= 2 /\ IsCont(bs[2]) /\ Utf8Valid(SubSeq(bs, 3, n))
             ELSE IF b >= 224 /\ b <= 239
                  THEN /\ n >= 3
                       /\ IsCont(bs[2])
                       /\ IsCont(bs[3])
                       /\ (b = 224 => bs[2] >= 160)
                       /\ (b = 237 => bs[2] <= 159)
                       /\ Utf8Valid(SubSeq(bs, 4, n))
             ELSE IF b >= 240 /\ b <= 244
                  THEN /\ n >= 4
                       /\ IsCont(bs[2])
                       /\ IsCont(bs[3])
                       /\ IsCont(bs[4])
                       /\ (b = 240 => bs[2] >= 144)
                       /\ (b = 244 => bs[2] <= 143)
                       /\ Utf8Valid(SubSeq(bs, 5, n))
             ELSE FALSE

\* The grave accent (code point 96) that the source's format strings put
\* around a quoted name has no TLA+ string literal; it is written as an
\* apostrophe throughout.
BT == "'"

\* the printable ASCII characters, code points 32..126
AsciiPrintable ==
    << " ","!","\"","#","$","%","&","'","(",")","*","+",",","-",".","/",
       "0","1","2","3","4","5","6","7","8","9",":",";","<","=",">","?",
       "@","A","B","C","D","E","F","G","H","I","J","K","L","M","N","O",
       "P","Q","R","S","T","U","V","W","X","Y","Z","[","\\","]","^","_",
       BT,"a","b","c","d","e","f","g","h","i","j","k","l","m","n","o",
       "p","q","r","s","t","u","v","w","x","y","z","{","|","}","~" >>

\* the text of one byte of a valid UTF-8 sequence; bytes outside printable
\* ASCII are written as their number between angle brackets
ByteText(b) ==
    IF b >= 32 /\ b <= 126 THEN AsciiPrintable[b - 31]
    ELSE "<" \o ToString(b) \o ">"

RECURSIVE BytesText(_)
BytesText(bs) ==
    IF bs = <<>> THEN "" ELSE ByteText(bs[1]) \o BytesText(Tail(bs))

\* String::from_utf8(bytes)
FromUtf8(bs) ==
    IF Utf8Valid(bs) THEN Ok(BytesText(bs)) ELSE Err("invalid utf-8 sequence")

\* from_base64 putting the empty string in place of text it cannot decode
from_base64_Lenient(str) ==
    IF Base64Decode(str).ok /\ Utf8Valid(Base64Decode(str).v)
    THEN Ok(BytesText(Base64Decode(str).v))
    ELSE Ok("")

\* from_base64: the deserializer of Message.data
from_base64(str) == AndThen(Base64Decode(str), FromUtf8)

----------------------------------------------------------------------------
(* JSON values, as serde_json hands them to a Deserialize implementation *)

JNull == [t |-> "null"]
JStr(s) == [t |-> "str", v |-> s]
JBool(b) == [t |-> "bool", v |-> b]
JNum(n) == [t |-> "num", v |-> n]
JArr(a) == [t |-> "arr", v |-> a]
JObj(o) == [t |-> "obj", v |-> o]

\* the object without keys
NoKeys == << >>

HasKey(o, k) == k \in DOMAIN o

\* a path as pieces, and its text
RECURSIVE Join(_)
Join(pieces) ==
    IF pieces = <<>> THEN "" ELSE pieces[1] \o Join(Tail(pieces))

NodePoolPath == <<"projects/test-project/locations/us-central1/clusters/test-cluster/",
                  "nodePools/", "pool-1">>

ClusterPath == <<"projects/test-project/locations/us-central1/clusters/test-cluster">>

\* the payload texts
TextEmpty ==
    ""

TextNotJson ==
    "{not json"

TextEmptyObject ==
    "{}"

TextControlPlane ==
    "{\"resourceType\":\"MASTER\",\"version\":\"1.22.6-gke.300\",\"currentVersion\":\"1.22.4-gke.1501\",\"targetVersion\":\"1.22.6-gke.300\",\"releaseChannel\":{\"channel\":\"RAPID\"}}"

TextNodePool ==
    "{\"resourceType\":\"NODE_POOL\",\"resource\":\"projects/test-project/locations/us-central1/clusters/test-cluster/nodePools/pool-1\",\"version\":\"1.22.6-gke.300\",\"currentVersion\":\"1.22.4-gke.1501\",\"targetVersion\":\"1.22.6-gke.300\",\"releaseChannel\":{\"channel\":\"REGULAR\"}}"

TextNodePoolNoResource ==
    "{\"resourceType\":\"NODE_POOL\",\"version\":\"1.22.6-gke.300\",\"targetVersion\":\"1.22.6-gke.300\",\"releaseChannel\":{\"channel\":\"STABLE\"}}"

TextNodePoolEmptyResource ==
    "{\"resourceType\":\"NODE_POOL\",\"resource\":\"\",\"version\":\"1.22.6-gke.300\"}"

TextNodePoolClusterResource ==
    "{\"resourceType\":\"NODE_POOL\",\"resource\":\"projects/test-project/locations/us-central1/clusters/test-cluster\",\"resourceTypeAffected\":\"RESOURCE_TYPE_NODE\"}"

NestedNodePoolPath ==
    <<"projects/test-project/locations/us-central1/clusters/test-cluster/",
      "nodePools/", "pools/", "nodePools/", "pool-2">>

TextNodePoolNested ==
    "{\"resourceType\":\"NODE_POOL\",\"resource\":\"projects/test-project/locations/us-central1/clusters/test-cluster/nodePools/pools/nodePools/pool-2\",\"version\":\"1.22.6-gke.300\"}"

TextControlPlaneWithResource ==
    "{\"resourceType\":\"MASTER\",\"resource\":\"projects/test-project/locations/us-central1/clusters/test-cluster/nodePools/pool-1\",\"releaseChannel\":{\"channel\":\"UNSPECIFIED\"}}"

TextSomeType ==
    "{\"resourceType\":\"SOME_TYPE\",\"resource\":null,\"targetVersion\":\"1.22.6-gke.300\"}"

TextBulletin ==
    "{\"bulletinId\":\"GCP-2022-005\",\"briefDescription\":\"A security vulnerability\",\"bulletinUri\":\"https://cloud.google.com/bulletins#gcp-2022-005\",\"cveIds\":[\"CVE-2021-43527\"],\"patchedVersions\":[\"1.21.9-gke.200\",\"1.22.6-gke.600\"],\"resourceTypeAffected\":\"RESOURCE_TYPE_CONTROLPLANE\",\"severity\":\"Medium\",\"suggestedUpgradeTarget\":\"1.22.6-gke.1000\"}"

TextBulletinManual ==
    "{\"bulletinId\":\"gcp-2022-008\",\"severity\":\"High\",\"affectedSupportedMinors\":[\"1.22\"],\"manualStepsRequired\":true,\"resourceTypeAffected\":\"RESOURCE_TYPE_OTHER\"}"

TextBulletinTargetOnly ==
    "{\"bulletinId\":\"gcp-2022-009\",\"patchedVersions\":[],\"resourceTypeAffected\":\"RESOURCE_TYPE_ÉΣ\",\"suggestedUpgradeTarget\":\"1.22.6-gke.1000\"}"

TextBulletinPatchedOnly ==
    "{\"bulletinId\":\"gcp-2022-009\",\"patchedVersions\":[\"1.22.6-gke.600\"],\"resourceTypeAffected\":\"RESOURCE_TYPE_Ɓ\",\"suggestedUpgradeTarget\":\"\"}"

TextWrongTypes ==
    "{\"resourceType\":5,\"bulletinId\":5}"

TextChannelExtended ==
    "{\"resourceType\":\"MASTER\",\"version\":\"1.22.6-gke.300\",\"releaseChannel\":{\"channel\":\"EXTENDED\"}}"

TextChannelNoTag ==
    "{\"resourceType\":\"MASTER\",\"version\":\"1.22.6-gke.300\",\"releaseChannel\":{}}"

TextUnknownFields ==
    "{\"someField\":\"some value\",\"releaseChannel\":{\"channel\":\"REGULAR\"}}"

TextEmptyArray ==
    "[]"

TextChannelSeq ==
    "{\"resourceType\":\"MASTER\",\"version\":\"1.22.6-gke.300\",\"releaseChannel\":[\"RAPID\"]}"

TextPositional ==
    "[{\"channel\":\"STABLE\"},null,\"NODE_POOL\",\"1.22.6-gke.300\"]"

\* The payload texts explored, each with what serde_json's parser makes of
\* it: a JSON value, or a syntax error.
PayloadTable ==
    { [text |-> TextEmpty, json |-> Err("EOF while parsing a value")],
      [text |-> TextNotJson, json |-> Err("key must be a string")],
      [text |-> TextEmptyObject, json |-> Ok(JObj(NoKeys))],
      [text |-> TextControlPlane,
       json |-> Ok(JObj([resourceType |-> JStr("MASTER"),
                         version |-> JStr("1.22.6-gke.300"),
                         currentVersion |-> JStr("1.22.4-gke.1501"),
                         targetVersion |-> JStr("1.22.6-gke.300"),
                         releaseChannel |-> JObj([channel |-> JStr("RAPID")])]))],
      [text |-> TextNodePool,
       json |-> Ok(JObj([resourceType |-> JStr("NODE_POOL"),
                         resource |-> JStr(NodePoolPath),
                         version |-> JStr("1.22.6-gke.300"),
                         currentVersion |-> JStr("1.22.4-gke.1501"),
                         targetVersion |-> JStr("1.22.6-gke.300"),
                         releaseChannel |-> JObj([channel |-> JStr("REGULAR")])]))],
      [text |-> TextNodePoolNoResource,
       json |-> Ok(JObj([resourceType |-> JStr("NODE_POOL"),
                         version |-> JStr("1.22.6-gke.300"),
                         targetVersion |-> JStr("1.22.6-gke.300"),
                         releaseChannel |-> JObj([channel |-> JStr("STABLE")])]))],
      [text |-> TextNodePoolEmptyResource,
       json |-> Ok(JObj([resourceType |-> JStr("NODE_POOL"),
                         resource |-> JStr(<< >>),
                         version |-> JStr("1.22.6-gke.300")]))],
      [text |-> TextNodePoolClusterResource,
       json |-> Ok(JObj([resourceType |-> JStr("NODE_POOL"),
                         resource |-> JStr(ClusterPath),
                         resourceTypeAffected |-> JStr("RESOURCE_TYPE_NODE")]))],
      [text |-> TextNodePoolNested,
       json |-> Ok(JObj([resourceType |-> JStr("NODE_POOL"),
                         resource |-> JStr(NestedNodePoolPath),
                         version |-> JStr("1.22.6-gke.300")]))],
      [text |-> TextControlPlaneWithResource,
       json |-> Ok(JObj([resourceType |-> JStr("MASTER"),
                         resource |-> JStr(NodePoolPath),
                         releaseChannel |-> JObj([channel |-> JStr("UNSPECIFIED")])]))],
      [text |-> TextSomeType,
       json |-> Ok(JObj([resourceType |-> JStr("SOME_TYPE"),
                         resource |-> JNull,
                         targetVersion |-> JStr("1.22.6-gke.300")]))],
      [text |-> TextBulletin,
       json |-> Ok(JObj([bulletinId |-> JStr("GCP-2022-005"),
                         briefDescription |-> JStr("A security vulnerability"),
                         bulletinUri |-> JStr("https://cloud.google.com/bulletins#gcp-2022-005"),
                         cveIds |-> JArr(<<JStr("CVE-2021-43527")>>),
                         patchedVersions |-> JArr(<<JStr("1.21.9-gke.200"), JStr("1.22.6-gke.600")>>),
                         resourceTypeAffected |-> JStr("RESOURCE_TYPE_CONTROLPLANE"),
                         severity |-> JStr("Medium"),
                         suggestedUpgradeTarget |-> JStr("1.22.6-gke.1000")]))],
      [text |-> TextBulletinManual,
       json |-> Ok(JObj([bulletinId |-> JStr("gcp-2022-008"),
                         severity |-> JStr("High"),
                         affectedSupportedMinors |-> JArr(<<JStr("1.22")>>),
                         manualStepsRequired |-> JBool(TRUE),
                         resourceTypeAffected |-> JStr("RESOURCE_TYPE_OTHER")]))],
      [text |-> TextBulletinTargetOnly,
       json |-> Ok(JObj([bulletinId |-> JStr("gcp-2022-009"),
                         patchedVersions |-> JArr(<< >>),
                         resourceTypeAffected |-> JStr("RESOURCE_TYPE_ÉΣ"),
                         suggestedUpgradeTarget |-> JStr("1.22.6-gke.1000")]))],
      [text |-> TextBulletinPatchedOnly,
       json |-> Ok(JObj([bulletinId |-> JStr("gcp-2022-009"),
                         patchedVersions |-> JArr(<<JStr("1.22.6-gke.600")>>),
                         resourceTypeAffected |-> JStr("RESOURCE_TYPE_Ɓ"),
                         suggestedUpgradeTarget |-> JStr("")]))],
      [text |-> TextWrongTypes,
       json |-> Ok(JObj([resourceType |-> JNum(5), bulletinId |-> JNum(5)]))],
      [text |-> TextChannelExtended,
       json |-> Ok(JObj([resourceType |-> JStr("MASTER"),
                         version |-> JStr("1.22.6-gke.300"),
                         releaseChannel |-> JObj([channel |-> JStr("EXTENDED")])]))],
      [text |-> TextChannelNoTag,
       json |-> Ok(JObj([resourceType |-> JStr("MASTER"),
                         version |-> JStr("1.22.6-gke.300"),
                         releaseChannel |-> JObj(NoKeys)]))],
      [text |-> TextUnknownFields,
       json |-> Ok(JObj([someField |-> JStr("some value"),
                         releaseChannel |-> JObj([channel |-> JStr("REGULAR")])]))] }

\* the payload texts that are, or hold, a JSON array where a struct or the
\* release channel is expected, each with its JSON value
ArrayPayloads ==
    << [text |-> TextEmptyArray, json |-> Ok(JArr(<< >>))],
       [text |-> TextChannelSeq,
        json |-> Ok(JObj([resourceType |-> JStr("MASTER"),
                          version |-> JStr("1.22.6-gke.300"),
                          releaseChannel |-> JArr(<<JStr("RAPID")>>)]))],
       [text |-> TextPositional,
        json |-> Ok(JArr(<<JObj([channel |-> JStr("STABLE")]), JNull,
                           JStr("NODE_POOL"), JStr("1.22.6-gke.300")>>))] >>

ArrayTexts == {ArrayPayloads[k].text : k \in DOMAIN ArrayPayloads}

PayloadTexts == { e.text : e \in PayloadTable } \cup ArrayTexts

\* one value a field can have on the wire: its JSON text and its parse
Alt(text, json) == [text |-> text, json |-> json]

AltStr(str) == Alt("\"" \o str \o "\"", JStr(str))

\* the wire values of an upgrade event's resource and resourceType
ResourceAlts ==
    <<Alt("\"projects/test-project/locations/us-central1/clusters/test-cluster/nodePools/pool-1\"",
          JStr(NodePoolPath)),
      Alt("\"\"", JStr(<< >>)),
      Alt("null", JNull)>>

ResourceTypeAlts ==
    <<AltStr("MASTER"), AltStr("NODE_POOL"), AltStr("SOME_TYPE"), AltStr("node_pool"), AltStr("")>>

ReleaseChannelAlts ==
    <<Alt("{\"channel\":\"RAPID\"}", JObj([channel |-> JStr("RAPID")])),
      Alt("{\"channel\":\"REGULAR\"}", JObj([channel |-> JStr("REGULAR")])),
      Alt("{\"channel\":\"STABLE\"}", JObj([channel |-> JStr("STABLE")])),
      Alt("{\"channel\":\"UNSPECIFIED\"}", JObj([channel |-> JStr("UNSPECIFIED")])),
      Alt("{\"channel\":\"EXTENDED\"}", JObj([channel |-> JStr("EXTENDED")])),
      Alt("{}", JObj(NoKeys))>>

\* the wire fields of the three event schemas, in the order they are written,
\* each with the values it takes
SecurityBulletinEventFields ==
    <<[key |-> "affectedSupportedMinors",
       alts |-> <<Alt("[\"1.22\"]", JArr(<<JStr("1.22")>>))>>],
      [key |-> "briefDescription", alts |-> <<AltStr("A security vulnerability")>>],
      [key |-> "bulletinId", alts |-> <<AltStr("GCP-2022-005")>>],
      [key |-> "bulletinUri",
       alts |-> <<AltStr("https://cloud.google.com/bulletins#gcp-2022-005")>>],
      [key |-> "cveIds", alts |-> <<Alt("[\"CVE-2021-43527\"]", JArr(<<JStr("CVE-2021-43527")>>))>>],
      [key |-> "manualStepsRequired", alts |-> <<Alt("true", JBool(TRUE))>>],
      [key |-> "patchedVersions",
       alts |-> <<Alt("[\"1.22.6-gke.600\"]", JArr(<<JStr("1.22.6-gke.600")>>)),
                  Alt("[]", JArr(<< >>))>>],
      [key |-> "resourceTypeAffected", alts |-> <<AltStr("RESOURCE_TYPE_NODE")>>],
      [key |-> "severity", alts |-> <<AltStr("High")>>],
      [key |-> "suggestedUpgradeTarget", alts |-> <<AltStr("1.22.6-gke.1000"), AltStr("")>>]>>

UpgradeAvailableEventFields ==
    <<[key |-> "releaseChannel", alts |-> ReleaseChannelAlts],
      [key |-> "resource", alts |-> ResourceAlts],
      [key |-> "resourceType", alts |-> ResourceTypeAlts],
      [key |-> "version", alts |-> <<AltStr("1.22.6-gke.300")>>]>>

UpgradeEventFields ==
    <<[key |-> "currentVersion", alts |-> <<AltStr("1.22.4-gke.1501")>>],
      [key |-> "operation", alts |-> <<AltStr("operation-1")>>],
      [key |-> "operationStartTime", alts |-> <<AltStr("2023-01-13T19:51:24Z")>>],
      [key |-> "resource", alts |-> ResourceAlts],
      [key |-> "resourceType", alts |-> ResourceTypeAlts],
      [key |-> "targetVersion", alts |-> <<AltStr("1.22.6-gke.300")>>]>>

\* a choice gives each field 0 (the field is omitted) or the number of one of its values
MostAlts(fs) ==
    CHOOSE n \in {Len(fs[i].alts) : i \in 1..Len(fs)} : \A i \in 1..Len(fs) : Len(fs[i].alts) <= n

FieldChoices(fs) ==
    {c \in [1..Len(fs) -> 0..MostAlts(fs)] : \A i \in 1..Len(fs) : c[i] <= Len(fs[i].alts)}

Written(c) == {i \in DOMAIN c : c[i] > 0}

\* the members of a JSON object from field i on, separated by commas
RECURSIVE MembersText(_, _, _)
MembersText(fs, c, i) ==
    IF i > Len(fs) THEN ""
    ELSE (IF c[i] = 0 THEN ""
          ELSE (IF \E j \in Written(c) : j < i THEN "," ELSE "")
                   \o "\"" \o fs[i].key \o "\":" \o fs[i].alts[c[i]].text)
             \o MembersText(fs, c, i + 1)

\* the JSON text of a choice
ObjectText(fs, c) == "{" \o MembersText(fs, c, 1) \o "}"

\* and its parse
ObjectJson(fs, c) ==
    JObj([k \in {fs[i].key : i \in Written(c)} |->
             fs[CHOOSE i \in Written(c) : fs[i].key = k]
                 .alts[c[CHOOSE i \in Written(c) : fs[i].key = k]].json])

FieldTable(fs) ==
    {[text |-> ObjectText(fs, c), json |-> Ok(ObjectJson(fs, c))] : c \in FieldChoices(fs)}

\* every payload written from the fields of a schema, by text
FieldPayloads ==
    FieldTable(SecurityBulletinEventFields)
        \cup FieldTable(UpgradeAvailableEventFields)
        \cup FieldTable(UpgradeEventFields)

FieldTexts == { e.text : e \in FieldPayloads }

FieldJson == [t \in FieldTexts |-> (CHOOSE e \in FieldPayloads : e.text = t).json]

\* serde_json's parse of a payload text
ParseJson(text) ==
    IF text \in ArrayTexts
    THEN ArrayPayloads[CHOOSE k \in DOMAIN ArrayPayloads : ArrayPayloads[k].text = text].json
    ELSE IF text \in PayloadTexts THEN (CHOOSE e \in PayloadTable : e.text = text).json
    ELSE FieldJson[text]

----------------------------------------------------------------------------
(* src/message/attributes/payload.rs: the event schemas *)

DeError == Err("invalid type")

\* String
DeString(j) == IF j.t = "str" THEN Ok(j.v) ELSE DeError

\* bool
DeBool(j) == IF j.t = "bool" THEN Ok(j.v) ELSE DeError

\* Vec<String>
DeVecString(j) ==
    IF j.t = "arr" /\ \A i \in 1..Len(j.v) : j.v[i].t = "str"
    THEN Ok([i \in 1..Len(j.v) |-> j.v[i].v])
    ELSE DeError

\* Option<String>
DeOptionString(j) ==
    IF j.t = "null" THEN Ok(None)
    ELSE IF j.t = "str" THEN Ok(Some(j.v))
    ELSE DeError

\* enum ResourceType
ControlPlane == [rt |-> "ControlPlane"]
NodePool == [rt |-> "NodePool"]
Unknown(name) == [rt |-> "Unknown", name |-> name]

\* impl Default for ResourceType
ResourceTypeDefault == Unknown("UPGRADE_RESOURCE_TYPE_UNSPECIFIED")

\* visit_str giving the default for a string it does not know
visit_str_Default(v) ==
    IF v = "MASTER" THEN ControlPlane
    ELSE IF v = "NODE_POOL" THEN NodePool
    ELSE ResourceTypeDefault

\* ResourceTypeVisitor::visit_str
visit_str(v) ==
    IF v = "MASTER" THEN ControlPlane
    ELSE IF v = "NODE_POOL" THEN NodePool
    ELSE Unknown(v)

\* impl Deserialize for ResourceType: deserialize_identifier accepts a string only
DeResourceType(j) == IF j.t = "str" THEN Ok(visit_str(j.v)) ELSE DeError

\* enum ReleaseChannel, #[serde(tag = "channel", rename_all = "UPPERCASE")]:
\* an object whose "channel" names one of the four variants
ReleaseChannelNames == {"UNSPECIFIED", "RAPID", "REGULAR", "STABLE"}

\* the tag of the enum: a string naming a variant
DeChannelTag(j) ==
    IF j.t # "str" THEN DeError
    ELSE IF j.v \in ReleaseChannelNames THEN Ok(j.v)
    ELSE Err("unknown variant")

\* the derived visitor of the internally tagged enum takes the tag from the
\* "channel" key of an object, whose other keys a unit variant ignores, or
\* from the first element of an array, which a unit variant lets hold
\* nothing more
DeReleaseChannel(j) ==
    IF j.t = "obj"
    THEN IF HasKey(j.v, "channel") THEN DeChannelTag(j.v["channel"])
         ELSE Err("missing field channel")
    ELSE IF j.t = "arr"
    THEN IF j.v = << >> THEN Err("missing field channel")
         ELSE IF ~DeChannelTag(j.v[1]).ok THEN DeChannelTag(j.v[1])
         ELSE IF Len(j.v) > 1 THEN Err("invalid length")
         ELSE DeChannelTag(j.v[1])
    ELSE DeError

\* #[default] Unspecified
ReleaseChannelDefault == "UNSPECIFIED"

\* impl Display for ReleaseChannel (a variant is kept by its wire name)
ReleaseChannelFmt(c) == c

\* one field of a #[serde(default)] struct: decoded when the key is present,
\* the default otherwise
DeField(o, k, De(_), default) ==
    IF HasKey(o, k) THEN De(o[k]) ELSE Ok(default)

\* one field of a #[serde(default)] struct read from an array: decoded when
\* the array has an element at the field's position, the default otherwise
DeElem(a, i, De(_), default) ==
    IF i <= Len(a) THEN De(a[i]) ELSE Ok(default)

\* a derived struct visitor: the struct of the decoded fields, or the error
\* of a field that failed
DeStruct(f) ==
    IF \A k \in DOMAIN f : f[k].ok THEN Ok([k \in DOMAIN f |-> f[k].v]) ELSE DeError

\* struct SecurityBulletinEvent, #[serde(default, rename_all = "camelCase")]
\* deserialize_struct takes an object, read by key (visit_map), or an array,
\* read by position in the order of declaration (visit_seq); an array longer
\* than the struct is an error
DeSecurityBulletinEvent(j) ==
    IF j.t = "obj"
    THEN DeStruct(
        [affected_supported_minors |-> DeField(j.v, "affectedSupportedMinors", DeVecString, << >>),
         brief_description |-> DeField(j.v, "briefDescription", DeString, ""),
         bulletin_id |-> DeField(j.v, "bulletinId", DeString, ""),
         bulletin_uri |-> DeField(j.v, "bulletinUri", DeString, ""),
         cve_ids |-> DeField(j.v, "cveIds", DeVecString, << >>),
         manual_steps_required |-> DeField(j.v, "manualStepsRequired", DeBool, FALSE),
         patched_versions |-> DeField(j.v, "patchedVersions", DeVecString, << >>),
         resource_type_affected |-> DeField(j.v, "resourceTypeAffected", DeString, ""),
         severity |-> DeField(j.v, "severity", DeString, ""),
         suggested_upgrade_target |-> DeField(j.v, "suggestedUpgradeTarget", DeString, "")])
    ELSE IF j.t = "arr"
    THEN IF Len(j.v) > 10 THEN Err("trailing characters")
         ELSE DeStruct(
        [affected_supported_minors |-> DeElem(j.v, 1, DeVecString, << >>),
         brief_description |-> DeElem(j.v, 2, DeString, ""),
         bulletin_id |-> DeElem(j.v, 3, DeString, ""),
         bulletin_uri |-> DeElem(j.v, 4, DeString, ""),
         cve_ids |-> DeElem(j.v, 5, DeVecString, << >>),
         manual_steps_required |-> DeElem(j.v, 6, DeBool, FALSE),
         patched_versions |-> DeElem(j.v, 7, DeVecString, << >>),
         resource_type_affected |-> DeElem(j.v, 8, DeString, ""),
         severity |-> DeElem(j.v, 9, DeString, ""),
         suggested_upgrade_target |-> DeElem(j.v, 10, DeString, "")])
    ELSE DeError

\* UpgradeAvailableEvent without #[serde(default)]: every field is required
DeUpgradeAvailableEvent_Required(j) ==
    IF j.t = "obj"
    THEN IF \E k \in {"releaseChannel", "resourceType", "version"} : ~HasKey(j.v, k)
         THEN Err("missing field")
         ELSE DeStruct(
        [release_channel |-> DeReleaseChannel(j.v["releaseChannel"]),
         resource |-> DeField(j.v, "resource", DeOptionString, None),
         resource_type |-> DeResourceType(j.v["resourceType"]),
         version |-> DeString(j.v["version"])])
    ELSE IF j.t = "arr"
    THEN IF Len(j.v) # 4 THEN Err("invalid length")
         ELSE DeStruct(
        [release_channel |-> DeReleaseChannel(j.v[1]),
         resource |-> DeOptionString(j.v[2]),
         resource_type |-> DeResourceType(j.v[3]),
         version |-> DeString(j.v[4])])
    ELSE DeError

\* struct UpgradeAvailableEvent, #[serde(default, rename_all = "camelCase")]
DeUpgradeAvailableEvent(j) ==
    IF j.t = "obj"
    THEN DeStruct(
        [release_channel |-> DeField(j.v, "releaseChannel", DeReleaseChannel, ReleaseChannelDefault),
         resource |-> DeField(j.v, "resource", DeOptionString, None),
         resource_type |-> DeField(j.v, "resourceType", DeResourceType, ResourceTypeDefault),
         version |-> DeField(j.v, "version", DeString, "")])
    ELSE IF j.t = "arr"
    THEN IF Len(j.v) > 4 THEN Err("trailing characters")
         ELSE DeStruct(
        [release_channel |-> DeElem(j.v, 1, DeReleaseChannel, ReleaseChannelDefault),
         resource |-> DeElem(j.v, 2, DeOptionString, None),
         resource_type |-> DeElem(j.v, 3, DeResourceType, ResourceTypeDefault),
         version |-> DeElem(j.v, 4, DeString, "")])
    ELSE DeError

\* struct UpgradeEvent, #[serde(default, rename_all = "camelCase")]
DeUpgradeEvent(j) ==
    IF j.t = "obj"
    THEN DeStruct(
        [current_version |-> DeField(j.v, "currentVersion", DeString, ""),
         operation |-> DeField(j.v, "operation", DeString, ""),
         operation_start_time |-> DeField(j.v, "operationStartTime", DeString, ""),
         resource |-> DeField(j.v, "resource", DeOptionString, None),
         resource_type |-> DeField(j.v, "resourceType", DeResourceType, ResourceTypeDefault),
         target_version |-> DeField(j.v, "targetVersion", DeString, "")])
    ELSE IF j.t = "arr"
    THEN IF Len(j.v) > 6 THEN Err("trailing characters")
         ELSE DeStruct(
        [current_version |-> DeElem(j.v, 1, DeString, ""),
         operation |-> DeElem(j.v, 2, DeString, ""),
         operation_start_time |-> DeElem(j.v, 3, DeString, ""),
         resource |-> DeElem(j.v, 4, DeOptionString, None),
         resource_type |-> DeElem(j.v, 5, DeResourceType, ResourceTypeDefault),
         target_version |-> DeElem(j.v, 6, DeString, "")])
    ELSE DeError

\* serde_json::from_str::<T>(&payload) for an event schema T
FromStr(text, De(_)) == AndThen(ParseJson(text), De)

\* enum Payload
PayloadSecurityBulletinEvent(p) == [kind |-> "SecurityBulletinEvent", p |-> p]
PayloadUpgradeAvailableEvent(p) == [kind |-> "UpgradeAvailableEvent", p |-> p]
PayloadUpgradeEvent(p) == [kind |-> "UpgradeEvent", p |-> p]
PayloadUnknownType(text) == [kind |-> "UnknownType", p |-> text]
PayloadNone == [kind |-> "None"]

\* as_upgrade_available_event answering for an UpgradeEvent too
as_upgrade_available_event_AnyUpgrade(payload) ==
    IF payload.kind \in {"UpgradeAvailableEvent", "UpgradeEvent"} THEN Some(payload.p) ELSE None

\* Payload::as_upgrade_available_event
as_upgrade_available_event(payload) ==
    IF payload.kind = "UpgradeAvailableEvent" THEN Some(payload.p) ELSE None

\* str::split_once("nodePools/") on a path, keeping what follows the first match
RECURSIVE SplitOnceNodePools(_)
SplitOnceNodePools(pieces) ==
    IF pieces = <<>> THEN None
    ELSE IF pieces[1] = "nodePools/" THEN Some(Join(Tail(pieces)))
    ELSE SplitOnceNodePools(Tail(pieces))

\* str::rsplit_once("nodePools/"): what follows the last match
RECURSIVE RSplitOnceNodePools(_)
RSplitOnceNodePools(pieces) ==
    IF pieces = <<>> THEN None
    ELSE IF RSplitOnceNodePools(Tail(pieces)).some THEN RSplitOnceNodePools(Tail(pieces))
    ELSE IF pieces[1] = "nodePools/" THEN Some(Join(Tail(pieces)))
    ELSE None

\* node_pool_name taking what follows the last "nodePools/"
node_pool_name_Last(p) ==
    IF p.resource.some THEN RSplitOnceNodePools(p.resource.v) ELSE None

\* UpgradeAvailableEvent::node_pool_name and UpgradeEvent::node_pool_name
node_pool_name(p) ==
    IF p.resource.some THEN SplitOnceNodePools(p.resource.v) ELSE None

----------------------------------------------------------------------------
(* src/message/attributes.rs *)

SecurityBulletinEventUrl == "type.googleapis.com/google.container.v1beta1.SecurityBulletinEvent"
UpgradeAvailableEventUrl == "type.googleapis.com/google.container.v1beta1.UpgradeAvailableEvent"
UpgradeEventUrl == "type.googleapis.com/google.container.v1beta1.UpgradeEvent"

KnownTypeUrls == {SecurityBulletinEventUrl, UpgradeAvailableEventUrl, UpgradeEventUrl}

\* enum Field: the keys the visitor accepts
AttributeFields == {"project_id", "cluster_name", "cluster_location", "type_url", "payload"}

\* #[derive(Default)] for Attributes
AttributesDefault ==
    [project_id |-> "", project_name |-> None, cluster_name |-> "",
     cluster_location |-> "", type_url |-> "", payload |-> PayloadNone]

\* a payload that fails its schema kept as an unknown payload
OrUnknownType(r, payload) == IF r.ok THEN r ELSE Ok(PayloadUnknownType(payload))

\* SelectPayload falling back to UnknownType when a known schema rejects the payload
SelectPayload_Lenient(type_url, payload) ==
    IF type_url = SecurityBulletinEventUrl
    THEN OrUnknownType(MapOk(FromStr(payload, DeSecurityBulletinEvent),
                             PayloadSecurityBulletinEvent), payload)
    ELSE IF type_url = UpgradeAvailableEventUrl
    THEN OrUnknownType(MapOk(FromStr(payload, DeUpgradeAvailableEvent),
                             PayloadUpgradeAvailableEvent), payload)
    ELSE IF type_url = UpgradeEventUrl
    THEN OrUnknownType(MapOk(FromStr(payload, DeUpgradeEvent), PayloadUpgradeEvent), payload)
    ELSE IF payload = "" THEN Ok(PayloadNone)
    ELSE Ok(PayloadUnknownType(payload))

\* SelectPayload inferring the variant from the shape of the payload: an
\* empty object under an unrecognised type_url counts as no payload
SelectPayload_ByShape(type_url, payload) ==
    IF type_url = SecurityBulletinEventUrl
    THEN MapOk(FromStr(payload, DeSecurityBulletinEvent), PayloadSecurityBulletinEvent)
    ELSE IF type_url = UpgradeAvailableEventUrl
    THEN MapOk(FromStr(payload, DeUpgradeAvailableEvent), PayloadUpgradeAvailableEvent)
    ELSE IF type_url = UpgradeEventUrl
    THEN MapOk(FromStr(payload, DeUpgradeEvent), PayloadUpgradeEvent)
    ELSE IF payload = "" \/ payload = "{}" THEN Ok(PayloadNone)
    ELSE Ok(PayloadUnknownType(payload))

\* the match on type_url that builds the payload
SelectPayload(type_url, payload) ==
    IF type_url = SecurityBulletinEventUrl
    THEN MapOk(FromStr(payload, DeSecurityBulletinEvent), PayloadSecurityBulletinEvent)
    ELSE IF type_url = UpgradeAvailableEventUrl
    THEN MapOk(FromStr(payload, DeUpgradeAvailableEvent), PayloadUpgradeAvailableEvent)
    ELSE IF type_url = UpgradeEventUrl
    THEN MapOk(FromStr(payload, DeUpgradeEvent), PayloadUpgradeEvent)
    ELSE IF payload = "" THEN Ok(PayloadNone)
    ELSE Ok(PayloadUnknownType(payload))

\* the key of an attributes object, as Option<String>: map.next_value::<String>()
AttrValue(o, k) == IF HasKey(o, k) THEN Some(o[k].v) ELSE None

\* AttributesVisitor::visit_map, reached through deserialize_map
visit_map(j) ==
    IF j.t # "obj" THEN DeError
    ELSE IF \E k \in DOMAIN j.v : k \notin AttributeFields THEN Err("unknown field")
    ELSE IF \E k \in DOMAIN j.v : j.v[k].t # "str" THEN DeError
    ELSE MapOk(SelectPayload(UnwrapOr(AttrValue(j.v, "type_url"), ""),
                             UnwrapOr(AttrValue(j.v, "payload"), "")),
               LAMBDA payload :
                   [project_id |-> UnwrapOr(AttrValue(j.v, "project_id"), ""),
                    project_name |-> None,
                    cluster_name |-> UnwrapOr(AttrValue(j.v, "cluster_name"), ""),
                    cluster_location |-> UnwrapOr(AttrValue(j.v, "cluster_location"), ""),
                    type_url |-> UnwrapOr(AttrValue(j.v, "type_url"), ""),
                    payload |-> payload])

\* with_project_name writing the name over project_id as well
AttributesWithProjectName_OverId(attr, name) ==
    [attr EXCEPT !.project_name = Some(name), !.project_id = name]

\* Attributes::with_project_name
AttributesWithProjectName(attr, name) == [attr EXCEPT !.project_name = Some(name)]

\* Attributes::project_name
project_name(attr) == UnwrapOr(attr.project_name, attr.project_id)

\* Attributes::resource_uri
resource_uri(attr) ==
    LET payload == attr.payload
        resource == IF /\ payload.kind \in {"UpgradeAvailableEvent", "UpgradeEvent"}
                       /\ payload.p.resource_type = NodePool
                    THEN payload.p.resource
                    ELSE None
    IN  IF resource.some THEN Join(resource.v)
        ELSE "projects/" \o project_name(attr) \o "/locations/" \o attr.cluster_location
                 \o "/clusters/" \o attr.cluster_name

\* Attributes::resource_url
resource_url(attr) ==
    LET payload == attr.payload
        name == IF /\ payload.kind \in {"UpgradeAvailableEvent", "UpgradeEvent"}
                   /\ payload.p.resource_type = NodePool
                THEN node_pool_name(payload.p)
                ELSE None
    IN  IF name.some
        THEN "https://console.cloud.google.com/kubernetes/nodepool/" \o attr.cluster_location
                 \o "/" \o attr.cluster_name \o "/" \o name.v \o "?project=" \o project_name(attr)
        ELSE "https://console.cloud.google.com/kubernetes/clusters/details/"
                 \o attr.cluster_location \o "/" \o attr.cluster_name
                 \o "?project=" \o project_name(attr)

\* Attributes::is_node_pool_upgrade_available_event
is_node_pool_upgrade_available_event(attr) ==
    LET p == as_upgrade_available_event(attr.payload)
    IN  IF p.some THEN p.v.resource_type = NodePool ELSE FALSE

\* the text of an unknown resource type without the type's name
UnknownResourceTypeText_NoName(name) == "Unknown resource type encountered"

UnknownResourceTypeText(name) == "Unknown resource type " \o BT \o name \o BT \o " encountered"

\* log_message naming the cluster instead of the resource URI in the bulletin summary
log_message_ClusterName(attr) ==
    LET payload == attr.payload
        p == payload.p
    IN  IF payload.kind = "SecurityBulletinEvent"
        THEN Ok("Security bulletin " \o p.bulletin_id \o " affecting " \o attr.cluster_name
                    \o " has been issued")
        ELSE IF payload.kind = "UpgradeAvailableEvent"
        THEN IF p.resource_type = ControlPlane
             THEN Ok("Control plane " \o resource_uri(attr) \o " has new version " \o p.version
                         \o " available for upgrade in the " \o ReleaseChannelFmt(p.release_channel)
                         \o " channel")
             ELSE IF p.resource_type = NodePool
             THEN Ok("Node pool " \o resource_uri(attr) \o " has new version " \o p.version
                         \o " available for upgrade in the " \o ReleaseChannelFmt(p.release_channel)
                         \o " channel")
             ELSE Ok(UnknownResourceTypeText(p.resource_type.name))
        ELSE IF payload.kind = "UpgradeEvent"
        THEN IF p.resource_type = ControlPlane
             THEN Ok("Control plane " \o resource_uri(attr) \o " is upgrading from version "
                         \o p.current_version \o " to " \o p.target_version)
             ELSE IF p.resource_type = NodePool
             THEN Ok("Node pool " \o resource_uri(attr) \o " is upgrading from "
                         \o p.current_version \o " to " \o p.target_version)
             ELSE Ok(UnknownResourceTypeText(p.resource_type.name))
        ELSE IF payload.kind = "UnknownType"
        THEN Err("Unknown message type " \o BT \o attr.type_url \o BT \o " encountered")
        ELSE Err("Empty or invalid payload")

\* Attributes::log_message (called as attributes.message() by Message::fmt)
log_message(attr) ==
    LET payload == attr.payload
        p == payload.p
    IN  IF payload.kind = "SecurityBulletinEvent"
        THEN Ok("Security bulletin " \o p.bulletin_id \o " affecting " \o resource_uri(attr)
                    \o " has been issued")
        ELSE IF payload.kind = "UpgradeAvailableEvent"
        THEN IF p.resource_type = ControlPlane
             THEN Ok("Control plane " \o resource_uri(attr) \o " has new version " \o p.version
                         \o " available for upgrade in the " \o ReleaseChannelFmt(p.release_channel)
                         \o " channel")
             ELSE IF p.resource_type = NodePool
             THEN Ok("Node pool " \o resource_uri(attr) \o " has new version " \o p.version
                         \o " available for upgrade in the " \o ReleaseChannelFmt(p.release_channel)
                         \o " channel")
             ELSE Ok(UnknownResourceTypeText(p.resource_type.name))
        ELSE IF payload.kind = "UpgradeEvent"
        THEN IF p.resource_type = ControlPlane
             THEN Ok("Control plane " \o resource_uri(attr) \o " is upgrading from version "
                         \o p.current_version \o " to " \o p.target_version)
             ELSE IF p.resource_type = NodePool
             THEN Ok("Node pool " \o resource_uri(attr) \o " is upgrading from "
                         \o p.current_version \o " to " \o p.target_version)
             ELSE Ok(UnknownResourceTypeText(p.resource_type.name))
        ELSE IF payload.kind = "UnknownType"
        THEN Err("Unknown message type " \o BT \o attr.type_url \o BT \o " encountered")
        ELSE Err("Empty or invalid payload")

----------------------------------------------------------------------------
(* src/message.rs *)

\* #[serde(deserialize_with = "from_base64")]: a string, then from_base64
DeData(j) == IF j.t = "str" THEN from_base64(j.v) ELSE DeError

\* #[derive(Default)] for Message
MessageDefault ==
    [attributes |-> AttributesDefault, message_id |-> "", publish_time |-> "", data |-> ""]

\* #[derive(Deserialize)] #[serde(default)] for Message; data goes through from_base64
DeMessage(j) ==
    IF j.t = "obj"
    THEN DeStruct(
        [attributes |-> DeField(j.v, "attributes", visit_map, AttributesDefault),
         message_id |-> DeField(j.v, "message_id", DeString, ""),
         publish_time |-> DeField(j.v, "publish_time", DeString, ""),
         data |-> DeField(j.v, "data", DeData, "")])
    ELSE IF j.t = "arr"
    THEN IF Len(j.v) > 4 THEN Err("trailing characters")
         ELSE DeStruct(
        [attributes |-> DeElem(j.v, 1, visit_map, AttributesDefault),
         message_id |-> DeElem(j.v, 2, DeString, ""),
         publish_time |-> DeElem(j.v, 3, DeString, ""),
         data |-> DeElem(j.v, 4, DeData, "")])
    ELSE DeError

\* #[derive(Deserialize)] for PubSubMessage: both fields are required
DePubSubMessage(j) ==
    IF j.t = "obj"
    THEN IF ~HasKey(j.v, "message") THEN Err("missing field message")
         ELSE IF ~HasKey(j.v, "subscription") THEN Err("missing field subscription")
         ELSE DeStruct([message |-> DeMessage(j.v["message"]),
                        subscription |-> DeString(j.v["subscription"])])
    ELSE IF j.t = "arr"
    THEN IF Len(j.v) # 2 THEN Err("invalid length")
         ELSE DeStruct([message |-> DeMessage(j.v[1]), subscription |-> DeString(j.v[2])])
    ELSE DeError

\* Message::with_project_name
with_project_name(m, name) ==
    [m EXCEPT !.attributes = AttributesWithProjectName(m.attributes, name)]

\* fmt appending the data to an error text even when the data is empty
fmt_AlwaysSuffix(m) ==
    LET r == log_message(m.attributes)
    IN  IF r.ok THEN r.v ELSE r.e \o ": " \o m.data

\* fmt leaving the data out of an error text
fmt_NoSuffix(m) ==
    LET r == log_message(m.attributes)
    IN  IF r.ok THEN r.v ELSE r.e

\* Message::fmt (called as message.log_entry() by the handler)
fmt(m) ==
    LET r == log_message(m.attributes)
    IN  IF r.ok THEN r.v
        ELSE IF m.data = "" THEN r.e
        ELSE r.e \o ": " \o m.data

\* Message::is_invalid, which the handler calls: empty data, or attributes
\* that are absent or of unknown type
is_invalid(m) ==
    \/ m.data = ""
    \/ m.attributes.payload.kind \in {"None", "UnknownType"}

----------------------------------------------------------------------------
(* src/message/slack.rs *)

\* impl Display for Payload
PayloadFmt(payload) == payload.kind

\* str::chars: the characters of a text, one after another. A character is
\* the string of that one character; a character that no string of this
\* module can hold is written by its name, U+ and its four hexadecimal digits
chars(text) == [i \in 1..Len(text) |-> SubSeq(text, i, i)]

\* the capitals of Unicode that a string of this module can hold, the ASCII
\* letters first
UpperLetters ==
    "ABCDEFGHIJKLMNOPQRSTUVWXYZÀÁÂÃÄÅÆÇÈÉÊËÌÍÎÏÐÑÒÓÔÕÖØÙÚÛÜÝÞƁƂƄƆƇƉƊƋƎƏƐƑƓƔƖƗƘƜƝƟƠƢƤƦƧƩƬƮƯƱƲƳƵƷƸƼǄǅǇǈǊǋǍǏǑǓǕǗǙǛǞǠǢǤǦǨǪǬǮǱǲǴǶǷǸǺǼǾΆΈΉΊΌΎΏΑΒΓΔΕΖΗΘΙΚΛΜΝΞΟΠΡΣΤΥΦΧΨΩΪΫϏϘϚϜϞϠϢϤϦϨϪϬϮϴϷϹϺϽϾϿҀҊҌҎҐҒҔҖҘҚҜҞҠҢҤҦҨҪҬҮҰҲҴҶҸҺҼҾӀӁӃӅӇӉӋӍӐӒӔӖӘӚӜӞӠӢӤӦӨӪӬӮӰӲӴӶӸӺӼӾႠႡႢႣႤႥႦႧႨႩႪႫႬႭႮႯႰႱႲႳႴႵႶႷႸႹႺႻႼႽႾႿჀჁჂჃჄჅჇჍᎠᎡᎢᎣᎤᎥᎦᎧᎨᎩᎪᎫᎬᎭᎮᎯᎰᎱᎲᎳᎴᎵᎶᎷᎸᎹᎺᎻᎼᎽᎾᎿᏀᏁᏂᏃᏄᏅᏆᏇᏈᏉᏊᏋᏌᏍᏎᏏᏐᏑᏒᏓᏔᏕᏖᏗᏘᏙᏚᏛᏜᏝᏞᏟᏠᏡᏢᏣᏤᏥᏦᏧᏨᏩᏪᏫᏬᏭᏮᏯᏰᏱᏲᏳᏴᏵᲉᲐᲑᲒᲓᲔᲕᲖᲗᲘᲙᲚᲛᲜᲝᲞᲟᲠᲡᲢᲣᲤᲥᲦᲧᲨᲩᲪᲫᲬᲭᲮᲯᲰᲱᲲᲳᲴᲵᲶᲷᲸᲹᲺᲽᲾᲿẀẂẄẆẈẊẌẎẐẒẔẞẠẢẤẦẨẪẬẮẰẲẴẶẸẺẼẾỀỂỄỆỈỊỌỎỐỒỔỖỘỚỜỞỠỢỤỦỨỪỬỮỰỲỴỶỸỺỼỾᾈᾉᾊᾋᾌᾍᾎᾏᾘᾙᾚᾛᾜᾝᾞᾟᾨᾩᾪᾫᾬᾭᾮᾯᾸᾹᾺΆᾼῈΈῊΉῌῘῙῚΊῨῩῪΎῬῸΌῺΏῼↃⒶⒷⒸⒹⒺⒻⒼⒽⒾⒿⓀⓁⓂⓃⓄⓅⓆⓇⓈⓉⓊⓋⓌⓍⓎⓏⲀⲂⲄⲆⲈⲊⲌⲎⲐⲒⲔⲖⲘⲚⲜⲞⲠⲢⲤⲦⲨⲪⲬⲮⲰⲲⲴⲶⲸⲺⲼⲾⳀⳂⳄⳆⳈⳊⳌⳎⳐⳒⳔⳖⳘⳚⳜⳞⳠⳢⳫⳭⳲꚀꚂꚄꚆꚈꚊꚌꚎꚐꚒꚔꚖꚘꚚꞀꞂꞄꞆꞋꞍꞐꞒꞖꞘꞚꞜꞞꞠꞢꞤꞦꞨꞪꞫꞬꞭꞮꞰꞱꞲꞳꞴꞶꞸꞺꞼꞾꟀꟂꟄꟅꟆꟇꟉꟋꟌ꟎Ꟑ꟒꟔ꟖꟘꟚꟜꟵ"

\* position by position, the character char::to_lowercase gives for each
\* capital of UpperLetters
LowerLetters ==
    <<
    "a", "b", "c", "d", "e", "f", "g", "h", "i", "j", "k", "l", "m", "n", "o", "p",
    "q", "r", "s", "t", "u", "v", "w", "x", "y", "z", "à", "á", "â", "ã", "ä", "å",
    "æ", "ç", "è", "é", "ê", "ë", "ì", "í", "î", "ï", "ð", "ñ", "ò", "ó", "ô", "õ",
    "ö", "ø", "ù", "ú", "û", "ü", "ý", "þ", "U+0253", "ƃ", "ƅ", "U+0254", "ƈ", "U+0256", "U+0257", "ƌ",
    "ǝ", "U+0259", "U+025B", "ƒ", "U+0260", "U+0263", "U+0269", "U+0268", "ƙ", "U+026F", "U+0272", "U+0275", "ơ", "ƣ", "ƥ", "ʀ",
    "ƨ", "ʃ", "ƭ", "ʈ", "ư", "ʊ", "ʋ", "ƴ", "ƶ", "ʒ", "ƹ", "ƽ", "ǆ", "ǆ", "ǉ", "ǉ",
    "ǌ", "ǌ", "ǎ", "ǐ", "ǒ", "ǔ", "ǖ", "ǘ", "ǚ", "ǜ", "ǟ", "ǡ", "ǣ", "ǥ", "ǧ", "ǩ",
    "ǫ", "ǭ", "ǯ", "ǳ", "ǳ", "ǵ", "ƕ", "ƿ", "ǹ", "ǻ", "ǽ", "ǿ", "ά", "έ", "ή", "ί",
    "ό", "ύ", "ώ", "α", "β", "γ", "δ", "ε", "ζ", "η", "θ", "ι", "κ", "λ", "μ", "ν",
    "ξ", "ο", "π", "ρ", "σ", "τ", "υ", "φ", "χ", "ψ", "ω", "ϊ", "ϋ", "ϗ", "ϙ", "ϛ",
    "ϝ", "ϟ", "ϡ", "ϣ", "ϥ", "ϧ", "ϩ", "ϫ", "ϭ", "ϯ", "θ", "ϸ", "ϲ", "ϻ", "U+037B", "U+037C",
    "U+037D", "ҁ", "ҋ", "ҍ", "ҏ", "ґ", "ғ", "ҕ", "җ", "ҙ", "қ", "ҝ", "ҟ", "ҡ", "ң", "ҥ",
    "ҧ", "ҩ", "ҫ", "ҭ", "ү", "ұ", "ҳ", "ҵ", "ҷ", "ҹ", "һ", "ҽ", "ҿ", "ӏ", "ӂ", "ӄ",
    "ӆ", "ӈ", "ӊ", "ӌ", "ӎ", "ӑ", "ӓ", "ӕ", "ӗ", "ә", "ӛ", "ӝ", "ӟ", "ӡ", "ӣ", "ӥ",
    "ӧ", "ө", "ӫ", "ӭ", "ӯ", "ӱ", "ӳ", "ӵ", "ӷ", "ӹ", "ӻ", "ӽ", "ӿ", "U+2D00", "U+2D01", "U+2D02",
    "U+2D03", "U+2D04", "U+2D05", "U+2D06", "U+2D07", "U+2D08", "U+2D09", "U+2D0A", "U+2D0B", "U+2D0C", "U+2D0D", "U+2D0E", "U+2D0F", "U+2D10", "U+2D11", "U+2D12",
    "U+2D13", "U+2D14", "U+2D15", "U+2D16", "U+2D17", "U+2D18", "U+2D19", "U+2D1A", "U+2D1B", "U+2D1C", "U+2D1D", "U+2D1E", "U+2D1F", "U+2D20", "U+2D21", "U+2D22",
    "U+2D23", "U+2D24", "U+2D25", "U+2D27", "U+2D2D", "U+AB70", "U+AB71", "U+AB72", "U+AB73", "U+AB74", "U+AB75", "U+AB76", "U+AB77", "U+AB78", "U+AB79", "U+AB7A",
    "U+AB7B", "U+AB7C", "U+AB7D", "U+AB7E", "U+AB7F", "ꮀ", "ꮁ", "ꮂ", "ꮃ", "ꮄ", "ꮅ", "ꮆ", "ꮇ", "ꮈ", "ꮉ", "ꮊ",
    "ꮋ", "ꮌ", "ꮍ", "ꮎ", "ꮏ", "ꮐ", "ꮑ", "ꮒ", "ꮓ", "ꮔ", "ꮕ", "ꮖ", "ꮗ", "ꮘ", "ꮙ", "ꮚ",
    "ꮛ", "ꮜ", "ꮝ", "ꮞ", "ꮟ", "ꮠ", "ꮡ", "ꮢ", "ꮣ", "ꮤ", "ꮥ", "ꮦ", "ꮧ", "ꮨ", "ꮩ", "ꮪ",
    "ꮫ", "ꮬ", "ꮭ", "ꮮ", "ꮯ", "ꮰ", "ꮱ", "ꮲ", "ꮳ", "ꮴ", "ꮵ", "ꮶ", "ꮷ", "ꮸ", "ꮹ", "ꮺ",
    "ꮻ", "ꮼ", "ꮽ", "ꮾ", "ꮿ", "ᏸ", "ᏹ", "ᏺ", "ᏻ", "ᏼ", "ᏽ", "ᲊ", "ა", "ბ", "გ", "დ",
    "ე", "ვ", "ზ", "თ", "ი", "კ", "ლ", "მ", "ნ", "ო", "პ", "ჟ", "რ", "ს", "ტ", "უ",
    "ფ", "ქ", "ღ", "ყ", "შ", "ჩ", "ც", "ძ", "წ", "ჭ", "ხ", "ჯ", "ჰ", "ჱ", "ჲ", "ჳ",
    "ჴ", "ჵ", "ჶ", "ჷ", "ჸ", "ჹ", "ჺ", "ჽ", "ჾ", "ჿ", "ẁ", "ẃ", "ẅ", "ẇ", "ẉ", "ẋ",
    "ẍ", "ẏ", "ẑ", "ẓ", "ẕ", "ß", "ạ", "ả", "ấ", "ầ", "ẩ", "ẫ", "ậ", "ắ", "ằ", "ẳ",
    "ẵ", "ặ", "ẹ", "ẻ", "ẽ", "ế", "ề", "ể", "ễ", "ệ", "ỉ", "ị", "ọ", "ỏ", "ố", "ồ",
    "ổ", "ỗ", "ộ", "ớ", "ờ", "ở", "ỡ", "ợ", "ụ", "ủ", "ứ", "ừ", "ử", "ữ", "ự", "ỳ",
    "ỵ", "ỷ", "ỹ", "ỻ", "ỽ", "ỿ", "ᾀ", "ᾁ", "ᾂ", "ᾃ", "ᾄ", "ᾅ", "ᾆ", "ᾇ", "ᾐ", "ᾑ",
    "ᾒ", "ᾓ", "ᾔ", "ᾕ", "ᾖ", "ᾗ", "ᾠ", "ᾡ", "ᾢ", "ᾣ", "ᾤ", "ᾥ", "ᾦ", "ᾧ", "ᾰ", "ᾱ",
    "U+1F70", "U+1F71", "ᾳ", "U+1F72", "U+1F73", "U+1F74", "U+1F75", "ῃ", "ῐ", "ῑ", "U+1F76", "U+1F77", "ῠ", "ῡ", "U+1F7A", "U+1F7B",
    "ῥ", "U+1F78", "U+1F79", "U+1F7C", "U+1F7D", "ῳ", "ↄ", "ⓐ", "ⓑ", "ⓒ", "ⓓ", "ⓔ", "ⓕ", "ⓖ", "ⓗ", "ⓘ",
    "ⓙ", "ⓚ", "ⓛ", "ⓜ", "ⓝ", "ⓞ", "ⓟ", "ⓠ", "ⓡ", "ⓢ", "ⓣ", "ⓤ", "ⓥ", "ⓦ", "ⓧ", "ⓨ",
    "ⓩ", "ⲁ", "ⲃ", "ⲅ", "ⲇ", "ⲉ", "ⲋ", "ⲍ", "ⲏ", "ⲑ", "ⲓ", "ⲕ", "ⲗ", "ⲙ", "ⲛ", "ⲝ",
    "ⲟ", "ⲡ", "ⲣ", "ⲥ", "ⲧ", "ⲩ", "ⲫ", "ⲭ", "ⲯ", "ⲱ", "ⲳ", "ⲵ", "ⲷ", "ⲹ", "ⲻ", "ⲽ",
    "ⲿ", "ⳁ", "ⳃ", "ⳅ", "ⳇ", "ⳉ", "ⳋ", "ⳍ", "ⳏ", "ⳑ", "ⳓ", "ⳕ", "ⳗ", "ⳙ", "ⳛ", "ⳝ",
    "ⳟ", "ⳡ", "ⳣ", "ⳬ", "ⳮ", "ⳳ", "ꚁ", "ꚃ", "ꚅ", "ꚇ", "ꚉ", "ꚋ", "ꚍ", "ꚏ", "ꚑ", "ꚓ",
    "ꚕ", "ꚗ", "ꚙ", "ꚛ", "ꞁ", "ꞃ", "ꞅ", "ꞇ", "ꞌ", "U+0265", "ꞑ", "ꞓ", "ꞗ", "ꞙ", "ꞛ", "ꞝ",
    "ꞟ", "ꞡ", "ꞣ", "ꞥ", "ꞧ", "ꞩ", "U+0266", "U+025C", "U+0261", "U+026C", "U+026A", "ʞ", "ʇ", "ʝ", "U+AB53", "ꞵ",
    "ꞷ", "ꞹ", "ꞻ", "ꞽ", "ꞿ", "ꟁ", "ꟃ", "ꞔ", "ʂ", "ᶎ", "ꟈ", "ꟊ", "U+0264", "ꟍ", "꟏", "ꟑ",
    "ꟓ", "ꟕ", "ꟗ", "ꟙ", "ꟛ", "ƛ", "ꟶ"
    >>

\* the characters with the Unicode property Case_Ignorable
Case_Ignorable ==
    "'.:^¨­¯´·¸ʰʱʲʳʴʵʶʷʸʹʺʻʼʽʾʿˀˁ˂˃˄˅ˆˇˈˉˊˋˌˍˎˏːˑ˒˓˔˕˖˗˘˙˚˛˜˝˞˟ˠˡˢˣˤ˥˦˧˨˩˪˫ˬ˭ˮ˯˰˱˲˳˴˵˶˷˸˹˺˻˼˽˾˿΄΅·҃҄҅҆҇҈҉ְֱֲֳִֵֶַָׇֹֺֻּֽֿׁׂ֑֖֛֢֣֤֥֦֧֪ׅ֚֭֮֒֓֔֕֗֘֙֜֝֞֟֠֡֨֩֫֬֯ׄ״ۖۗۘۙۚۛۜ۝ۣ۟۠ۡۢۤۥۦ۪ۭۧۨ۫۬ަާިީުޫެޭޮޯް߲߫߬߭߮߯߰߱߳ߴߵߺ߽࢈࢐࢑࢙࢚࢛ࢗ࢘࢜࢝࢞࢟ࣉ࣏࣐࣑࣒࣓࣊࣋࣌࣍࣎ࣔࣕࣖࣗࣘࣙࣚࣛࣜࣝࣞࣟ࣠࣡࣢ࣰࣱࣲࣣࣦࣩ࣭࣮࣯ࣶࣹࣺࣤࣥࣧࣨ࣪࣫࣬ࣳࣴࣵࣷࣸࣻࣼࣽࣾࣿঁ়ুূৃৄ্ৢৣ৾ઁં઼ુૂૃૄૅેૈ્ૢૣૺૻૼ૽૾૿ஂீ்ಁ಼ಿೆೌ್ೢೣඁ්ිීුූັິີຶື຺ຸູົຼໆ່້໊໋໌ໍ໎྄ཱྀྀྂྃ྆྇ྍྎྏྐྑྒྒྷྔྕྖྗྙྚྛྜྜྷྞྟྠྡྡྷྣྤྥྦྦྷྨྩྪྫྫྷྭྮྯྰྱྲླྴྵྶྷྸྐྵྺྻྼ࿆ႂႅႆႍႝჼ឴឵ិីឹឺុូួំ៉៊់៌៍៎៏័៑្៓ៗ៝ᢅᢆᢩᪧ᪵᪶᪷᪸᪹᪺᪽᪰᪱᪲᪳᪴᪻᪼᪾ᪿᫀ᫃᫄᫊᫁᫂᫅᫆᫇᫈᫉᫋ᫌᫍᫎ᫏᫐᫑᫒᫓᫔᫕᫖᫗᫘᫙᫚᫛᫜᫝᫠᫡᫢᫣᫤᫥᫦᫧᫨᫩᫪᫫ᮀᮁᮢᮣᮤᮥᮨᮩ᮫ᮬᮭ᯦ᯨᯩᯭᯯᯰᯱ᳔᳢᳣᳤᳥᳦᳧᳨᳕᳖᳗᳘᳙᳜᳝᳞᳟᳭᳐᳑᳒᳚᳛᳠᳴᳸᳹ᶛᶜᶝᶞᶟᶠᶡᶢᶣᶤᶥᶦᶧᶨᶩᶪᶫᶬᶭᶮᶯᶰᶱᶲᶳᶴᶵᶶᶷᶸᶹᶺᶻᶼᶽᶾᶿ᷐᷎᷺᷂᷊᷏᷹᷽᷿᷷᷸᷀᷁᷃᷄᷅᷆᷇᷈᷉᷋᷌᷑᷒ᷓᷔᷕᷖᷗᷘᷙᷚᷛᷜᷝᷞᷟᷠᷡᷢᷣᷤᷥᷦᷧᷨᷩᷪᷫᷬᷭᷮᷯᷰᷱᷲᷳᷴ᷵᷻᷾᷶᷼᷍᾽᾿῀῁῍῎῏῝῞῟῭΅`´῾ₐₑₒₓₔₕₖₗₘₙₚₛₜ⃒⃓⃘⃙⃚⃐⃑⃔⃕⃖⃗⃛⃜⃝⃞⃟⃠⃡⃢⃣⃤⃥⃦⃪⃫゙゚⃨⃬⃭⃮⃯⃧⃩⃰⳯⳰⳱ⷠⷡⷢⷣⷤⷥⷦⷧⷨⷩⷪⷫⷬⷭⷮⷯⷰⷱⷲⷳⷴⷵⷶⷷⷸⷹⷺⷻⷼⷽⷾⷿ゛゜ゝゞーヽヾꓸꓹꓺꓻꓼꓽꚜꚝꚞꚟ꛰꛱ꞈ꞉꞊꟱ꟲꟳꟴꟸꟹ꣄ꣅ꣠꣡꣢꣣꣤꣥꣦꣧꣨꣩꣪꣫꣬꣭꣮꣯꣰꣱ꣿꦀꦁꦂ꦳ꦶꦷꦸꦹꦼꦽꧏꧥꧦꪴꪰꪲꪳꪷꪸꪾ꪿꫁ꫝꫬꫭꫳꫴ꫶ꯥꯨ꯭﮲﮳﮴﮵﮶﮷﮸﮹﮺﮻﮼﮽﮾﮿﯀﯁﯂﻿ﾞﾟ￣￹￺￻"

\* the characters with the Unicode property Cased, those that are also
\* Case_Ignorable left out (they are skipped before Cased is asked)
Cased ==
    "ABCDEFGHIJKLMNOPQRSTUVWXYZabcdefghijklmnopqrstuvwxyzªµºÀÁÂÃÄÅÆÇÈÉÊËÌÍÎÏÐÑÒÓÔÕÖØÙÚÛÜÝÞßàáâãäåæçèéêëìíîïðñòóôõöøùúûüýþÿƀƁƂƃƄƅƆƇƈƉƊƋƌƍƎƏƐƑƒƓƔƕƖƗƘƙƚƛƜƝƞƟƠơƢƣƤƥƦƧƨƩƪƫƬƭƮƯưƱƲƳƴƵƶƷƸƹƺƼƽƾƿǄǅǆǇǈǉǊǋǌǍǎǏǐǑǒǓǔǕǖǗǘǙǚǛǜǝǞǟǠǡǢǣǤǥǦǧǨǩǪǫǬǭǮǯǰǱǲǳǴǵǶǷǸǹǺǻǼǽǾǿʀʁʂʃʄʅʆʇʈʉʊʋʌʍʎʏʐʑʒʓʖʗʘʙʚʛʜʝʞʟʠʡʢʣʤʥʦʧʨʩʪʫʬʭʮʯΆΈΉΊΌΎΏΐΑΒΓΔΕΖΗΘΙΚΛΜΝΞΟΠΡΣΤΥΦΧΨΩΪΫάέήίΰαβγδεζηθικλμνξοπρςστυφχψωϊϋόύώϏϐϑϒϓϔϕϖϗϘϙϚϛϜϝϞϟϠϡϢϣϤϥϦϧϨϩϪϫϬϭϮϯϰϱϲϳϴϵϷϸϹϺϻϼϽϾϿҀҁҊҋҌҍҎҏҐґҒғҔҕҖҗҘҙҚқҜҝҞҟҠҡҢңҤҥҦҧҨҩҪҫҬҭҮүҰұҲҳҴҵҶҷҸҹҺһҼҽҾҿӀӁӂӃӄӅӆӇӈӉӊӋӌӍӎӏӐӑӒӓӔӕӖӗӘәӚӛӜӝӞӟӠӡӢӣӤӥӦӧӨөӪӫӬӭӮӯӰӱӲӳӴӵӶӷӸӹӺӻӼӽӾӿրցւփքօֆևֈႠႡႢႣႤႥႦႧႨႩႪႫႬႭႮႯႰႱႲႳႴႵႶႷႸႹႺႻႼႽႾႿჀჁჂჃჄჅჇჍაბგდევზთიკლმნოპჟრსტუფქღყშჩცძწჭხჯჰჱჲჳჴჵჶჷჸჹჺჽჾჿᎠᎡᎢᎣᎤᎥᎦᎧᎨᎩᎪᎫᎬᎭᎮᎯᎰᎱᎲᎳᎴᎵᎶᎷᎸᎹᎺᎻᎼᎽᎾᎿᏀᏁᏂᏃᏄᏅᏆᏇᏈᏉᏊᏋᏌᏍᏎᏏᏐᏑᏒᏓᏔᏕᏖᏗᏘᏙᏚᏛᏜᏝᏞᏟᏠᏡᏢᏣᏤᏥᏦᏧᏨᏩᏪᏫᏬᏭᏮᏯᏰᏱᏲᏳᏴᏵᏸᏹᏺᏻᏼᏽᲀᲁᲂᲃᲄᲅᲆᲇᲈᲉᲊᲐᲑᲒᲓᲔᲕᲖᲗᲘᲙᲚᲛᲜᲝᲞᲟᲠᲡᲢᲣᲤᲥᲦᲧᲨᲩᲪᲫᲬᲭᲮᲯᲰᲱᲲᲳᲴᲵᲶᲷᲸᲹᲺᲽᲾᲿᶀᶁᶂᶃᶄᶅᶆᶇᶈᶉᶊᶋᶌᶍᶎᶏᶐᶑᶒᶓᶔᶕᶖᶗᶘᶙᶚẀẁẂẃẄẅẆẇẈẉẊẋẌẍẎẏẐẑẒẓẔẕẖẗẘẙẚẛẜẝẞẟẠạẢảẤấẦầẨẩẪẫẬậẮắẰằẲẳẴẵẶặẸẹẺẻẼẽẾếỀềỂểỄễỆệỈỉỊịỌọỎỏỐốỒồỔổỖỗỘộỚớỜờỞởỠỡỢợỤụỦủỨứỪừỬửỮữỰựỲỳỴỵỶỷỸỹỺỻỼỽỾỿᾀᾁᾂᾃᾄᾅᾆᾇᾈᾉᾊᾋᾌᾍᾎᾏᾐᾑᾒᾓᾔᾕᾖᾗᾘᾙᾚᾛᾜᾝᾞᾟᾠᾡᾢᾣᾤᾥᾦᾧᾨᾩᾪᾫᾬᾭᾮᾯᾰᾱᾲᾳᾴᾶᾷᾸᾹᾺΆᾼιῂῃῄῆῇῈΈῊΉῌῐῑῒΐῖῗῘῙῚΊῠῡῢΰῤῥῦῧῨῩῪΎῬῲῳῴῶῷῸΌῺΏῼↃↄⒶⒷⒸⒹⒺⒻⒼⒽⒾⒿⓀⓁⓂⓃⓄⓅⓆⓇⓈⓉⓊⓋⓌⓍⓎⓏⓐⓑⓒⓓⓔⓕⓖⓗⓘⓙⓚⓛⓜⓝⓞⓟⓠⓡⓢⓣⓤⓥⓦⓧⓨⓩⲀⲁⲂⲃⲄⲅⲆⲇⲈⲉⲊⲋⲌⲍⲎⲏⲐⲑⲒⲓⲔⲕⲖⲗⲘⲙⲚⲛⲜⲝⲞⲟⲠⲡⲢⲣⲤⲥⲦⲧⲨⲩⲪⲫⲬⲭⲮⲯⲰⲱⲲⲳⲴⲵⲶⲷⲸⲹⲺⲻⲼⲽⲾⲿⳀⳁⳂⳃⳄⳅⳆⳇⳈⳉⳊⳋⳌⳍⳎⳏⳐⳑⳒⳓⳔⳕⳖⳗⳘⳙⳚⳛⳜⳝⳞⳟⳠⳡⳢⳣⳤⳫⳬⳭⳮⳲⳳꚀꚁꚂꚃꚄꚅꚆꚇꚈꚉꚊꚋꚌꚍꚎꚏꚐꚑꚒꚓꚔꚕꚖꚗꚘꚙꚚꚛꞀꞁꞂꞃꞄꞅꞆꞇꞋꞌꞍꞎꞐꞑꞒꞓꞔꞕꞖꞗꞘꞙꞚꞛꞜꞝꞞꞟꞠꞡꞢꞣꞤꞥꞦꞧꞨꞩꞪꞫꞬꞭꞮꞯꞰꞱꞲꞳꞴꞵꞶꞷꞸꞹꞺꞻꞼꞽꞾꞿꟀꟁꟂꟃꟄꟅꟆꟇꟈꟉꟊꟋꟌꟍ꟎꟏Ꟑꟑ꟒ꟓ꟔ꟕꟖꟗꟘꟙꟚꟛꟜꟵꟶꟺꮀꮁꮂꮃꮄꮅꮆꮇꮈꮉꮊꮋꮌꮍꮎꮏꮐꮑꮒꮓꮔꮕꮖꮗꮘꮙꮚꮛꮜꮝꮞꮟꮠꮡꮢꮣꮤꮥꮦꮧꮨꮩꮪꮫꮬꮭꮮꮯꮰꮱꮲꮳꮴꮵꮶꮷꮸꮹꮺꮻꮼꮽꮾꮿ"

\* c is one of the characters of the table
IsOneOf(table, c) == \E k \in 1..Len(table) : SubSeq(table, k, k) = c

\* char::to_lowercase on one character: a capital becomes its small letter,
\* any other character is kept
LowerChar(c) ==
    IF IsOneOf(UpperLetters, c)
    THEN LowerLetters[CHOOSE n \in 1..Len(UpperLetters) : SubSeq(UpperLetters, n, n) = c]
    ELSE c

\* case_ignorable_then_cased in str::to_lowercase: going from position i in
\* steps of d, the first character that is not Case_Ignorable is Cased
RECURSIVE case_ignorable_then_cased(_, _, _)
case_ignorable_then_cased(text, i, d) ==
    IF i < 1 \/ i > Len(text) THEN FALSE
    ELSE IF IsOneOf(Case_Ignorable, SubSeq(text, i, i))
    THEN case_ignorable_then_cased(text, i + d, d)
    ELSE IsOneOf(Cased, SubSeq(text, i, i))

\* map_uppercase_sigma in str::to_lowercase: the capital sigma at position i
\* becomes the final sigma at the end of a word, the small sigma elsewhere
map_uppercase_sigma(text, i) ==
    IF case_ignorable_then_cased(text, i - 1, -1) /\ ~case_ignorable_then_cased(text, i + 1, 1)
    THEN "ς"
    ELSE "σ"

\* the characters of the text from position i on, each in lower case
RECURSIVE LowerFrom(_, _)
LowerFrom(text, i) ==
    IF i > Len(text) THEN << >>
    ELSE IF SubSeq(text, i, i) = "Σ" THEN <<map_uppercase_sigma(text, i)>> \o LowerFrom(text, i + 1)
    ELSE <<LowerChar(SubSeq(text, i, i))>> \o LowerFrom(text, i + 1)

\* str::to_lowercase: the characters of the text in lower case
to_lowercase(text) == LowerFrom(text, 1)

\* str::trim_start_matches: the prefix is removed as often as it is there
RECURSIVE trim_start_matches(_, _)
trim_start_matches(text, pat) ==
    IF Len(pat) > 0 /\ Len(text) >= Len(pat) /\ SubSeq(text, 1, Len(pat)) = pat
    THEN trim_start_matches(SubSeq(text, Len(pat) + 1, Len(text)), pat)
    ELSE text

\* SecurityBulletinEvent::resource_type_affected: the characters of the
\* String it returns
resource_type_affected(p) ==
    IF p.resource_type_affected = "RESOURCE_TYPE_CONTROLPLANE" THEN chars("Control Plane")
    ELSE IF p.resource_type_affected = "RESOURCE_TYPE_NODE" THEN chars("Node")
    ELSE trim_start_matches(to_lowercase(p.resource_type_affected), chars("resource_type_"))

\* the string of the characters from position i on, each of them one a
\* string can hold
RECURSIVE StringFrom(_, _)
StringFrom(cs, i) == IF i > Len(cs) THEN "" ELSE cs[i] \o StringFrom(cs, i + 1)

\* format!("<head>{}", text) for a text given by its characters: the string,
\* or the characters of the whole when one of them is beyond a string
format(head, cs) ==
    IF \A i \in 1..Len(cs) : Len(cs[i]) = 1
    THEN head \o StringFrom(cs, 1)
    ELSE chars(head) \o cs

\* SecurityBulletinEvent::manual_steps_required
manual_steps_required(p) == IF p.manual_steps_required THEN "Yes" ELSE "No"

\* [String]::join("\n")
RECURSIVE JoinLines(_)
JoinLines(ss) ==
    IF ss = <<>> THEN ""
    ELSE IF Len(ss) = 1 THEN ss[1]
    ELSE ss[1] \o "\n" \o JoinLines(Tail(ss))

\* slack_plain_text naming the resource by its URI, as the log message does
slack_plain_text_Uri(m) ==
    LET attr == m.attributes
        payload == attr.payload
        p == payload.p
        uri == resource_uri(attr)
    IN  IF payload.kind = "SecurityBulletinEvent"
        THEN ":gear: Security bulletin " \o p.bulletin_id \o " affecting " \o uri
                 \o " has been issued"
        ELSE IF payload.kind = "UpgradeAvailableEvent"
        THEN IF p.resource_type \in {ControlPlane, NodePool}
             THEN ":gear: " \o uri \o " has new version available " \o p.version
             ELSE ":gear: " \o uri \o " unknown resource type " \o p.resource_type.name
        ELSE IF payload.kind = "UpgradeEvent"
        THEN IF p.resource_type \in {ControlPlane, NodePool}
             THEN ":gear: " \o uri \o " is upgrading to version " \o p.target_version
             ELSE ":gear: " \o uri \o " unknown resource type " \o p.resource_type.name
        ELSE IF payload.kind = "UnknownType"
        THEN ":gear: " \o uri \o " received event of unknown type"
        ELSE ":gear: empty or invalid payload"

\* SlackMessage::slack_plain_text
slack_plain_text(m) ==
    LET attr == m.attributes
        payload == attr.payload
        p == payload.p
    IN  IF payload.kind = "SecurityBulletinEvent"
        THEN ":gear: Security bulletin " \o p.bulletin_id \o " affecting " \o attr.cluster_name
                 \o " has been issued"
        ELSE IF payload.kind = "UpgradeAvailableEvent"
        THEN IF p.resource_type = ControlPlane
             THEN ":gear: " \o attr.cluster_name \o " control plane has new version available "
                      \o p.version
             ELSE IF p.resource_type = NodePool
             THEN ":gear: " \o attr.cluster_name \o " node pool "
                      \o UnwrapOr(node_pool_name(p), "") \o " has new version available "
                      \o p.version
             ELSE ":gear: " \o attr.cluster_name \o " unknown resource type "
                      \o p.resource_type.name
        ELSE IF payload.kind = "UpgradeEvent"
        THEN IF p.resource_type = ControlPlane
             THEN ":gear: " \o attr.cluster_name \o " control plane is upgrading to version "
                      \o p.target_version
             ELSE IF p.resource_type = NodePool
             THEN ":gear: " \o attr.cluster_name \o " node pool "
                      \o UnwrapOr(node_pool_name(p), "") \o " is upgrading to version "
                      \o p.target_version
             ELSE ":gear: " \o attr.cluster_name \o " unknown resource type "
                      \o p.resource_type.name
        ELSE IF payload.kind = "UnknownType"
        THEN ":gear: " \o attr.cluster_name \o " received event of unknown type"
        ELSE ":gear: empty or invalid payload"

\* SlackMessage::slack_block_text
slack_block_text(m) ==
    LET attr == m.attributes
        payload == attr.payload
        p == payload.p
        name == BT \o attr.cluster_name \o BT
        unknown == ":gear: *" \o name \o "* unknown resource type " \o BT
                       \o p.resource_type.name \o BT \o " encountered on " \o BT
                       \o PayloadFmt(payload) \o BT
    IN  IF payload.kind = "SecurityBulletinEvent"
        THEN ":gear: Security bulletin " \o BT \o p.bulletin_id \o BT \o " affecting " \o name
                 \o " has been issued"
        ELSE IF payload.kind = "UpgradeAvailableEvent"
        THEN IF p.resource_type = ControlPlane
             THEN ":gear: *" \o name \o "* control plane has new version available"
             ELSE IF p.resource_type = NodePool
             THEN ":gear: *" \o name \o "* node pool " \o BT \o UnwrapOr(node_pool_name(p), "")
                      \o BT \o " has new version available"
             ELSE unknown
        ELSE IF payload.kind = "UpgradeEvent"
        THEN IF p.resource_type = ControlPlane
             THEN ":gear: *" \o name \o "* control plane is upgrading"
             ELSE IF p.resource_type = NodePool
             THEN ":gear: *" \o name \o "* node pool " \o BT \o UnwrapOr(node_pool_name(p), "")
                      \o BT \o " is upgrading"
             ELSE unknown
        ELSE IF payload.kind = "UnknownType"
        THEN ":gear: " \o name \o " received event of unknown type"
        ELSE ":gear: empty or invalid payload"

\* the json!({...}) block shapes
Mrkdwn(text) == [type |-> "mrkdwn", text |-> text]
SectionText(text) == [type |-> "section", text |-> Mrkdwn(text)]
SectionFields(a, b) == [type |-> "section", fields |-> <<Mrkdwn(a), Mrkdwn(b)>>]
ContextBlock(text) == [type |-> "context", elements |-> <<Mrkdwn(text)>>]

\* DetailBlocks emitting the patched-versions block only when both of its fields are non-empty
DetailBlocks_BothRequired(m) ==
    LET attr == m.attributes
        payload == attr.payload
        p == payload.p
    IN  IF payload.kind = "SecurityBulletinEvent"
        THEN <<SectionText("*Brief Description*\n" \o p.brief_description),
               SectionFields(format("*Affected Resource Type*\n", resource_type_affected(p)),
                             "*Manual Steps Required*\n" \o manual_steps_required(p)),
               SectionFields("*Project*\n" \o project_name(attr),
                             "*Severity*\n" \o p.severity)>>
             \o (IF p.patched_versions # <<>> /\ p.suggested_upgrade_target # ""
                 THEN <<SectionFields("*Patched Versions*\n" \o JoinLines(p.patched_versions),
                                      "*Suggested Upgrade Target*\n" \o p.suggested_upgrade_target)>>
                 ELSE <<>>)
             \o <<SectionFields("*Cluster*\n" \o resource_url(attr),
                                "*Security Bulletin*\n<" \o p.bulletin_uri \o "|View Details>")>>
        ELSE IF payload.kind = "UpgradeAvailableEvent"
        THEN <<SectionFields("*Project*\n" \o project_name(attr),
                             "*Version*\n" \o p.version),
               SectionFields("*Resource*\n<" \o resource_url(attr) \o "|View in Console>",
                             "*Release Channel*\n" \o ReleaseChannelFmt(p.release_channel))>>
        ELSE IF payload.kind = "UpgradeEvent"
        THEN <<SectionFields("*Project*\n" \o project_name(attr),
                             "*Current Version*\n" \o p.current_version),
               SectionFields("*Resource*\n<" \o resource_url(attr) \o "|View in Console>",
                             "*Target Version*\n" \o p.target_version)>>
        ELSE <<SectionFields("*Project*\n" \o project_name(attr),
                             "*Message*\n" \o m.data),
               SectionFields("*Resource*\n<" \o resource_url(attr) \o "|View in Console>",
                             "*TypeUrl*\n" \o attr.type_url)>>

\* the blocks between the header and the context block
DetailBlocks(m) ==
    LET attr == m.attributes
        payload == attr.payload
        p == payload.p
    IN  IF payload.kind = "SecurityBulletinEvent"
        THEN <<SectionText("*Brief Description*\n" \o p.brief_description),
               SectionFields(format("*Affected Resource Type*\n", resource_type_affected(p)),
                             "*Manual Steps Required*\n" \o manual_steps_required(p)),
               SectionFields("*Project*\n" \o project_name(attr),
                             "*Severity*\n" \o p.severity)>>
             \o (IF p.patched_versions # <<>> \/ p.suggested_upgrade_target # ""
                 THEN <<SectionFields("*Patched Versions*\n" \o JoinLines(p.patched_versions),
                                      "*Suggested Upgrade Target*\n" \o p.suggested_upgrade_target)>>
                 ELSE <<>>)
             \o <<SectionFields("*Cluster*\n" \o resource_url(attr),
                                "*Security Bulletin*\n<" \o p.bulletin_uri \o "|View Details>")>>
        ELSE IF payload.kind = "UpgradeAvailableEvent"
        THEN <<SectionFields("*Project*\n" \o project_name(attr),
                             "*Version*\n" \o p.version),
               SectionFields("*Resource*\n<" \o resource_url(attr) \o "|View in Console>",
                             "*Release Channel*\n" \o ReleaseChannelFmt(p.release_channel))>>
        ELSE IF payload.kind = "UpgradeEvent"
        THEN <<SectionFields("*Project*\n" \o project_name(attr),
                             "*Current Version*\n" \o p.current_version),
               SectionFields("*Resource*\n<" \o resource_url(attr) \o "|View in Console>",
                             "*Target Version*\n" \o p.target_version)>>
        ELSE <<SectionFields("*Project*\n" \o project_name(attr),
                             "*Message*\n" \o m.data),
               SectionFields("*Resource*\n<" \o resource_url(attr) \o "|View in Console>",
                             "*TypeUrl*\n" \o attr.type_url)>>

\* SlackMessage::slack_blocks
slack_blocks(m) ==
    <<SectionText(slack_block_text(m))>>
        \o DetailBlocks(m)
        \o <<ContextBlock(resource_uri(m.attributes))>>

\* impl From<&Message> for WebhookMessage
WebhookMessage(m) == [text |-> slack_plain_text(m), blocks |-> slack_blocks(m)]

----------------------------------------------------------------------------
(* The requests and environments explored *)

UnknownEventUrl == "type.googleapis.com/google.container.v1beta1.UnknownEvent"

TypeUrlChoices == {None} \cup {Some(u) : u \in KnownTypeUrls \cup {UnknownEventUrl}}

PayloadChoices == {None} \cup {Some(t) : t \in PayloadTexts}

\* an attributes object with the three identity keys and the optional two
MkAttrs(tu, pl) ==
    LET keys == {"project_id", "cluster_name", "cluster_location"}
                    \cup (IF tu.some THEN {"type_url"} ELSE {})
                    \cup (IF pl.some THEN {"payload"} ELSE {})
    IN  JObj([k \in keys |->
                 JStr(CASE k = "project_id" -> "0123456789"
                        [] k = "cluster_name" -> "test-cluster"
                        [] k = "cluster_location" -> "us-central1"
                        [] k = "type_url" -> tu.v
                        [] k = "payload" -> pl.v)])

AttrsChoices ==
    {None}
        \cup {Some(MkAttrs(tu, pl)) : tu \in TypeUrlChoices, pl \in PayloadChoices}
        \cup {Some(JObj([type_url |-> JStr("SOME_TYPE")])),
              Some(JObj([type_url |-> JStr(UpgradeEventUrl), payload |-> JStr("{}"),
                         project_name |-> JStr("test-project")])),
              Some(JObj([type_url |-> JStr(UnknownEventUrl), payload |-> JObj(NoKeys)])),
              Some(JNull)}

\* aGk= is "hi"; w6k= is the two bytes of U+00E9; aGk lacks its padding;
\* aGl= has stray bits; /w== is the byte 255
DataChoices ==
    {None, Some(<< >>), Some(<<"a","G","k","=">>), Some(<<"w","6","k","=">>),
     Some(<<"a","G","k">>), Some(<<"a","G","l","=">>), Some(<<"/","w","=","=">>)}

\* a message object with its metadata and the optional attributes and data
MkMessage(at, da) ==
    LET keys == {"message_id", "publish_time"}
                    \cup (IF at.some THEN {"attributes"} ELSE {})
                    \cup (IF da.some THEN {"data"} ELSE {})
    IN  JObj([k \in keys |->
                 CASE k = "message_id" -> JStr("9800598855834432")
                   [] k = "publish_time" -> JStr("2023-01-13T19:51:24.884Z")
                   [] k = "attributes" -> at.v
                   [] k = "data" -> JStr(da.v)])

Subscription == "projects/test-project/subscriptions/gke-notifications"

MkRequest(msg) == JObj([message |-> msg, subscription |-> JStr(Subscription)])

\* the bodies {}, {"message":{}} and {"message":{},"subscription":"..."} come
\* with the full envelopes
Requests ==
    {MkRequest(MkMessage(at, da)) : at \in AttrsChoices, da \in DataChoices}
        \cup {JObj(NoKeys), JObj([message |-> JObj(NoKeys)]), MkRequest(JObj(NoKeys))}

\* the bodies written as arrays: [{},"..."], [[]] and
\* {"message":[{}],"subscription":"..."}
ArrayRequests ==
    <<JArr(<<JObj(NoKeys), JStr(Subscription)>>),
      JArr(<<JArr(<< >>)>>),
      MkRequest(JArr(<<JObj(NoKeys)>>))>>

Envs ==
    [GCP_PROJECT : {None, Some("test-project")},
     SLACK_WEBHOOK : {None, Some("https://hooks.slack.com/services/T000/B000/XXXX")},
     debug : BOOLEAN]

\* the symbols `data` wire texts are built of when every text up to
\* MaxDataLen is explored
DataSymbols == {"a", "A", "G", "/", "w", "=", "!"}

RECURSIVE SeqsUpTo(_, _)
SeqsUpTo(S, n) ==
    IF n = 0 THEN {<< >>}
    ELSE LET shorter == SeqsUpTo(S, n - 1)
         IN  shorter \cup {Append(q, c) : q \in {r \in shorter : Len(r) = n - 1}, c \in S}

DataRequests ==
    {MkRequest(MkMessage(at, Some(da))) :
        at \in {None, Some(MkAttrs(Some(UpgradeEventUrl), Some("{}")))},
        da \in SeqsUpTo(DataSymbols, MaxDataLen)}

\* each payload written from the fields of a schema, under that schema's type_url
FieldRequests ==
    {MkRequest(MkMessage(Some(MkAttrs(Some(SecurityBulletinEventUrl), Some(e.text))),
                         Some(<<"a","G","k","=">>))) :
        e \in FieldTable(SecurityBulletinEventFields)}
    \cup {MkRequest(MkMessage(Some(MkAttrs(Some(UpgradeAvailableEventUrl), Some(e.text))),
                              Some(<<"a","G","k","=">>))) :
             e \in FieldTable(UpgradeAvailableEventFields)}
    \cup {MkRequest(MkMessage(Some(MkAttrs(Some(UpgradeEventUrl), Some(e.text))),
                              da)) :
             e \in FieldTable(UpgradeEventFields), da \in {None, Some(<<"a","G","k","=">>)}}

\* what the webhook can answer to a POST: a success body, or an error body
PostOutcomes == {Ok("ok"), Err("invalid_blocks"), Err("no_service")}

----------------------------------------------------------------------------
(* src/main.rs: one request through POST / *)

LogEvent(level, text, fields) == [level |-> level, text |-> text, fields |-> fields]

\* lines 91-98: the closing event, debug! with its fields or info! without
FinalEvent(m, response) ==
    IF env.debug
    THEN LogEvent("DEBUG", log_entry.v,
                  Some([msg |-> m, subscription |-> psm.v.subscription,
                        slack_message |-> slack_message, slack_response |-> response]))
    ELSE LogEvent("INFO", log_entry.v, None)

\* Json<PubSubMessage> rejects the body: the handler never runs
ExtractReject ==
    /\ pc = "extract"
    /\ ~DePubSubMessage(req).ok
    /\ pc' = "rejected"
    /\ UNCHANGED <<req, env, psm, message, log_entry, slack_message, slack_response, logs, posts>>

\* lines 56-59: the GCP_PROJECT overlay
Overlay(m) ==
    IF env.GCP_PROJECT.some THEN with_project_name(m, env.GCP_PROJECT.v) ELSE m

\* lines 56-62: the handler's `message` and `log_entry`
Entered(m) ==
    /\ message' = Some(m)
    /\ log_entry' = Some(fmt(m))

\* the extractor's outcome is a PubSubMessage, handed to the handler
Accepted(r) ==
    /\ r.ok
    /\ psm' = Some(r.v)
    /\ Entered(Overlay(r.v.message))

\* Json<PubSubMessage> accepts the body; lines 56-62: the project-name overlay
\* and the log entry
ExtractOk ==
    /\ pc = "extract"
    /\ Accepted(DePubSubMessage(req))
    /\ pc' = "handler"
    /\ UNCHANGED <<req, env, slack_message, slack_response, logs, posts>>

\* HandlerInvalid without the early return: the error is logged and the
\* handler goes on to the webhook
HandlerInvalid_NoReturn ==
    /\ pc = "handler"
    /\ is_invalid(message.v)
    /\ logs' = Append(logs, LogEvent("ERROR", log_entry.v,
                                     Some([msg |-> message.v,
                                           subscription |-> psm.v.subscription])))
    /\ IF env.SLACK_WEBHOOK.some
       THEN /\ slack_message' = Some(WebhookMessage(message.v))
            /\ posts' = Append(posts, [url |-> env.SLACK_WEBHOOK.v,
                                       body |-> WebhookMessage(message.v)])
            /\ pc' = "await"
       ELSE /\ pc' = "done"
            /\ UNCHANGED <<slack_message, posts>>
    /\ UNCHANGED <<req, env, psm, message, log_entry, slack_response>>

\* lines 64-66: an invalid message is logged as an error and the handler returns
HandlerInvalid ==
    /\ pc = "handler"
    /\ is_invalid(message.v)
    /\ logs' = Append(logs, LogEvent("ERROR", log_entry.v,
                                     Some([msg |-> message.v,
                                           subscription |-> psm.v.subscription])))
    /\ pc' = "done"
    /\ UNCHANGED <<req, env, psm, message, log_entry, slack_message, slack_response, posts>>

\* HandlerPost without the node-pool UpgradeAvailableEvent filter
HandlerPost_NoFilter ==
    /\ pc = "handler"
    /\ ~is_invalid(message.v)
    /\ env.SLACK_WEBHOOK.some
    /\ slack_message' = Some(WebhookMessage(message.v))
    /\ posts' = Append(posts, [url |-> env.SLACK_WEBHOOK.v, body |-> WebhookMessage(message.v)])
    /\ pc' = "await"
    /\ UNCHANGED <<req, env, psm, message, log_entry, slack_response, logs>>

\* lines 72-78: the card is built and posted; the handler awaits the answer
HandlerPost ==
    /\ pc = "handler"
    /\ ~is_invalid(message.v)
    /\ env.SLACK_WEBHOOK.some
    /\ ~is_node_pool_upgrade_available_event(message.v.attributes)
    /\ slack_message' = Some(WebhookMessage(message.v))
    /\ posts' = Append(posts, [url |-> env.SLACK_WEBHOOK.v, body |-> WebhookMessage(message.v)])
    /\ pc' = "await"
    /\ UNCHANGED <<req, env, psm, message, log_entry, slack_response, logs>>

\* HandlerSkip returning without the closing event
HandlerSkip_Silent ==
    /\ pc = "handler"
    /\ ~is_invalid(message.v)
    /\ \/ ~env.SLACK_WEBHOOK.some
       \/ is_node_pool_upgrade_available_event(message.v.attributes)
    /\ pc' = "done"
    /\ UNCHANGED <<req, env, psm, message, log_entry, slack_message, slack_response, logs, posts>>

\* lines 72-75 and 91-98: no webhook, or a filtered event: only the closing event
HandlerSkip ==
    /\ pc = "handler"
    /\ ~is_invalid(message.v)
    /\ \/ ~env.SLACK_WEBHOOK.some
       \/ is_node_pool_upgrade_available_event(message.v.attributes)
    /\ logs' = Append(logs, FinalEvent(message.v, slack_response))
    /\ pc' = "done"
    /\ UNCHANGED <<req, env, psm, message, log_entry, slack_message, slack_response, posts>>

\* lines 78-79 and 91-98: the post succeeded
PostOk ==
    /\ pc = "await"
    /\ \E res \in {o \in PostOutcomes : o.ok} :
          /\ slack_response' = Some(res.v)
          /\ logs' = Append(logs, FinalEvent(message.v, Some(res.v)))
    /\ pc' = "done"
    /\ UNCHANGED <<req, env, psm, message, log_entry, slack_message, posts>>

\* PostErr posting the card again after a failure
PostErr_Retry ==
    /\ pc = "await"
    /\ \E res \in {o \in PostOutcomes : ~o.ok} :
          /\ slack_response' = Some(res.e)
          /\ logs' = Append(logs,
                 LogEvent("ERROR", "post to webhook failed: " \o res.e,
                          Some([msg |-> message.v, subscription |-> psm.v.subscription,
                                slack_message |-> slack_message])))
    /\ posts' = Append(posts, [url |-> env.SLACK_WEBHOOK.v, body |-> slack_message.v])
    /\ pc' = IF Len(posts) < 2 THEN "await" ELSE "done"
    /\ UNCHANGED <<req, env, psm, message, log_entry, slack_message>>

\* PostErr returning from the handler as soon as the failure is logged
PostErr_Abort ==
    /\ pc = "await"
    /\ \E res \in {o \in PostOutcomes : ~o.ok} :
          /\ slack_response' = Some(res.e)
          /\ logs' = Append(logs,
                 LogEvent("ERROR", "post to webhook failed: " \o res.e,
                          Some([msg |-> message.v, subscription |-> psm.v.subscription,
                                slack_message |-> slack_message])))
    /\ pc' = "done"
    /\ UNCHANGED <<req, env, psm, message, log_entry, slack_message, posts>>

\* lines 80-86 and 91-98: the post failed; the failure is logged and kept
PostErr ==
    /\ pc = "await"
    /\ \E res \in {o \in PostOutcomes : ~o.ok} :
          /\ slack_response' = Some(res.e)
          /\ logs' = logs \o
                 <<LogEvent("ERROR", "post to webhook failed: " \o res.e,
                            Some([msg |-> message.v, subscription |-> psm.v.subscription,
                                  slack_message |-> slack_message])),
                   FinalEvent(message.v, Some(res.e))>>
    /\ pc' = "done"
    /\ UNCHANGED <<req, env, psm, message, log_entry, slack_message, posts>>

InitWith(requests, envs) ==
    /\ req \in requests
    /\ env \in envs
    /\ pc = "extract"
    /\ psm = None
    /\ message = None
    /\ log_entry = None
    /\ slack_message = None
    /\ slack_response = None
    /\ logs = << >>
    /\ posts = << >>

Init ==
    \/ InitWith(Requests, Envs)
    \/ \E k \in DOMAIN ArrayRequests : InitWith({ArrayRequests[k]}, Envs)

\* every `data` wire text up to MaxDataLen symbols
InitData == InitWith(DataRequests, {e \in Envs : ~e.GCP_PROJECT.some /\ ~e.debug})

\* every subset of the fields of each event schema
InitFields == InitWith(FieldRequests, {e \in Envs : ~e.debug})

Next ==
    \/ ExtractReject
    \/ ExtractOk
    \/ HandlerInvalid
    \/ HandlerPost
    \/ HandlerSkip
    \/ PostOk
    \/ PostErr

Spec == Init /\ [][Next]_vars

\* the handler, once entered, runs to its next await or to its return, and
\* the outbound call returns
Fairness ==
    /\ WF_vars(HandlerInvalid \/ HandlerPost \/ HandlerSkip)
    /\ WF_vars(PostOk \/ PostErr)

SpecLive == Init /\ [][Next]_vars /\ Fairness

SpecData == InitData /\ [][Next]_vars

SpecFields == InitFields /\ [][Next]_vars

----------------------------------------------------------------------------
(* src/main.rs: several requests in flight at once.  axum runs one handler
   future per request on the tokio runtime; each request has its own locals,
   so here every handler variable is a function of the request, while the
   environment, the tracing output and the webhook are the process's. *)

\* how many requests are in flight together
NumRequests == 2

Reqs == 1..NumRequests

\* the bodies in flight: {}, an envelope without data, a node-pool
\* UpgradeAvailableEvent, and two whose cards are posted, a control-plane
\* UpgradeEvent and a security bulletin
ConcurrentRequests ==
    {JObj(NoKeys),
     MkRequest(MkMessage(Some(MkAttrs(Some(UpgradeEventUrl), Some(TextControlPlane))), None)),
     MkRequest(MkMessage(Some(MkAttrs(Some(UpgradeAvailableEventUrl), Some(TextNodePool))),
                         Some(<<"a","G","k","=">>))),
     MkRequest(MkMessage(Some(MkAttrs(Some(UpgradeEventUrl), Some(TextControlPlane))),
                         Some(<<"a","G","k","=">>))),
     MkRequest(MkMessage(Some(MkAttrs(Some(SecurityBulletinEventUrl), Some(TextBulletin))),
                         Some(<<"a","G","k","=">>)))}

\* a tracing event or a webhook POST, with the request whose handler issued it
IssuedBy(i, what) == [of |-> i, what |-> what]

\* lines 91-98 for request i
FinalEventOf(i, response) ==
    IF env.debug
    THEN LogEvent("DEBUG", log_entry[i].v,
                  Some([msg |-> message[i].v, subscription |-> psm[i].v.subscription,
                        slack_message |-> slack_message[i], slack_response |-> response]))
    ELSE LogEvent("INFO", log_entry[i].v, None)

\* Json<PubSubMessage> rejects the body of request i
ExtractRejectOf(i) ==
    /\ pc[i] = "extract"
    /\ ~DePubSubMessage(req[i]).ok
    /\ pc' = [pc EXCEPT ![i] = "rejected"]
    /\ UNCHANGED <<req, env, psm, message, log_entry, slack_message, slack_response, logs, posts>>

\* EnteredOf keeping `message` in one cell for the whole process: the
\* handlers already running see the message stored last
EnteredOf_SharedMessage(i, m) ==
    /\ message' = [j \in Reqs |-> IF j = i \/ message[j].some THEN Some(m) ELSE message[j]]
    /\ log_entry' = [log_entry EXCEPT ![i] = Some(fmt(m))]

\* lines 56-62 for request i: the handler's `message` and `log_entry`
EnteredOf(i, m) ==
    /\ message' = [message EXCEPT ![i] = Some(m)]
    /\ log_entry' = [log_entry EXCEPT ![i] = Some(fmt(m))]

\* the extractor's outcome for request i is a PubSubMessage, handed to its handler
AcceptedOf(i, r) ==
    /\ r.ok
    /\ psm' = [psm EXCEPT ![i] = Some(r.v)]
    /\ EnteredOf(i, Overlay(r.v.message))

\* lines 55-62 for request i: the extractor's value, the overlay, the log entry
ExtractOkOf(i) ==
    /\ pc[i] = "extract"
    /\ AcceptedOf(i, DePubSubMessage(req[i]))
    /\ pc' = [pc EXCEPT ![i] = "handler"]
    /\ UNCHANGED <<req, env, slack_message, slack_response, logs, posts>>

\* lines 64-66 for request i
HandlerInvalidOf(i) ==
    /\ pc[i] = "handler"
    /\ is_invalid(message[i].v)
    /\ logs' = Append(logs, IssuedBy(i, LogEvent("ERROR", log_entry[i].v,
                                                 Some([msg |-> message[i].v,
                                                       subscription |-> psm[i].v.subscription]))))
    /\ pc' = [pc EXCEPT ![i] = "done"]
    /\ UNCHANGED <<req, env, psm, message, log_entry, slack_message, slack_response, posts>>

\* lines 72-78 for request i: the card is posted and the future is suspended
HandlerPostOf(i) ==
    /\ pc[i] = "handler"
    /\ ~is_invalid(message[i].v)
    /\ env.SLACK_WEBHOOK.some
    /\ ~is_node_pool_upgrade_available_event(message[i].v.attributes)
    /\ slack_message' = [slack_message EXCEPT ![i] = Some(WebhookMessage(message[i].v))]
    /\ posts' = Append(posts, IssuedBy(i, [url |-> env.SLACK_WEBHOOK.v,
                                           body |-> WebhookMessage(message[i].v)]))
    /\ pc' = [pc EXCEPT ![i] = "await"]
    /\ UNCHANGED <<req, env, psm, message, log_entry, slack_response, logs>>

\* lines 72-75 and 91-98 for request i
HandlerSkipOf(i) ==
    /\ pc[i] = "handler"
    /\ ~is_invalid(message[i].v)
    /\ \/ ~env.SLACK_WEBHOOK.some
       \/ is_node_pool_upgrade_available_event(message[i].v.attributes)
    /\ logs' = Append(logs, IssuedBy(i, FinalEventOf(i, slack_response[i])))
    /\ pc' = [pc EXCEPT ![i] = "done"]
    /\ UNCHANGED <<req, env, psm, message, log_entry, slack_message, slack_response, posts>>

\* lines 78-79 and 91-98 for request i: its post succeeded
PostOkOf(i) ==
    /\ pc[i] = "await"
    /\ \E res \in {o \in PostOutcomes : o.ok} :
          /\ slack_response' = [slack_response EXCEPT ![i] = Some(res.v)]
          /\ logs' = Append(logs, IssuedBy(i, FinalEventOf(i, Some(res.v))))
    /\ pc' = [pc EXCEPT ![i] = "done"]
    /\ UNCHANGED <<req, env, psm, message, log_entry, slack_message, posts>>

\* lines 80-86 for request i: its post failed and the failure is logged; the
\* closing event is a separate event, which another request's may precede
PostErrOf(i) ==
    /\ pc[i] = "await"
    /\ \E res \in {o \in PostOutcomes : ~o.ok} :
          /\ slack_response' = [slack_response EXCEPT ![i] = Some(res.e)]
          /\ logs' = Append(logs, IssuedBy(i,
                 LogEvent("ERROR", "post to webhook failed: " \o res.e,
                          Some([msg |-> message[i].v, subscription |-> psm[i].v.subscription,
                                slack_message |-> slack_message[i]]))))
    /\ pc' = [pc EXCEPT ![i] = "failed"]
    /\ UNCHANGED <<req, env, psm, message, log_entry, slack_message, posts>>

\* lines 91-98 for request i after a failed post
CloseOf(i) ==
    /\ pc[i] = "failed"
    /\ logs' = Append(logs, IssuedBy(i, FinalEventOf(i, slack_response[i])))
    /\ pc' = [pc EXCEPT ![i] = "done"]
    /\ UNCHANGED <<req, env, psm, message, log_entry, slack_message, slack_response, posts>>

\* one step of request i
StepOf(i) ==
    \/ ExtractRejectOf(i)
    \/ ExtractOkOf(i)
    \/ HandlerInvalidOf(i)
    \/ HandlerPostOf(i)
    \/ HandlerSkipOf(i)
    \/ PostOkOf(i)
    \/ PostErrOf(i)
    \/ CloseOf(i)

InitConcurrent ==
    /\ req \in [Reqs -> ConcurrentRequests]
    /\ env \in {e \in Envs : e.SLACK_WEBHOOK.some /\ e.GCP_PROJECT.some /\ ~e.debug}
    /\ pc = [i \in Reqs |-> "extract"]
    /\ psm = [i \in Reqs |-> None]
    /\ message = [i \in Reqs |-> None]
    /\ log_entry = [i \in Reqs |-> None]
    /\ slack_message = [i \in Reqs |-> None]
    /\ slack_response = [i \in Reqs |-> None]
    /\ logs = << >>
    /\ posts = << >>

NextConcurrent == \E i \in Reqs : StepOf(i)

SpecConcurrent == InitConcurrent /\ [][NextConcurrent]_vars

----------------------------------------------------------------------------
(* The request as it is on the wire, for stating what a decode must yield *)

HasMessage == req.t = "obj" /\ HasKey(req.v, "message") /\ req.v["message"].t = "obj"

WireMessage == req.v["message"].v

WireHasAttrs == HasMessage /\ HasKey(WireMessage, "attributes")

WireAttrs == WireMessage["attributes"]

\* the attributes are an object of accepted keys with string values
WireAttrsWellFormed ==
    /\ WireHasAttrs
    /\ WireAttrs.t = "obj"
    /\ \A k \in DOMAIN WireAttrs.v : k \in AttributeFields /\ WireAttrs.v[k].t = "str"

\* a key of the attributes, "" when the key or the attributes are absent
WireAttr(k) ==
    IF WireAttrsWellFormed /\ HasKey(WireAttrs.v, k) THEN WireAttrs.v[k].v ELSE ""

WireTypeUrl == WireAttr("type_url")

WirePayload == WireAttr("payload")

WireHasData == HasMessage /\ HasKey(WireMessage, "data")

WireData == WireMessage["data"].v

\* the handler has been handed a decoded message
Decoded == pc \notin {"extract", "rejected"}

Last(q) == q[Len(q)]

IsNodePoolUpgradeAvailable(m) ==
    /\ m.attributes.payload.kind = "UpgradeAvailableEvent"
    /\ m.attributes.payload.p.resource_type = NodePool

----------------------------------------------------------------------------
(* Claims *)

KindOfTypeUrl(type_url) ==
    IF type_url = SecurityBulletinEventUrl THEN {"SecurityBulletinEvent"}
    ELSE IF type_url = UpgradeAvailableEventUrl THEN {"UpgradeAvailableEvent"}
    ELSE IF type_url = UpgradeEventUrl THEN {"UpgradeEvent"}
    ELSE {"None", "UnknownType"}

\* C1: the payload variant is selected from type_url alone: a known type_url
\* yields its own variant, any other type_url yields None for an empty or
\* absent payload string and UnknownType holding the payload text verbatim
\* otherwise; in every decoded message the variant and type_url agree.
C1_VariantFromTypeUrl ==
    Decoded =>
        /\ psm.v.message.attributes.payload.kind
               \in KindOfTypeUrl(psm.v.message.attributes.type_url)
        /\ message.v.attributes.payload.kind \in KindOfTypeUrl(message.v.attributes.type_url)
        /\ psm.v.message.attributes.type_url = WireTypeUrl
        /\ message.v.attributes.payload = psm.v.message.attributes.payload
        /\ WireTypeUrl \notin KnownTypeUrls =>
               psm.v.message.attributes.payload =
                   IF WirePayload = "" THEN PayloadNone ELSE PayloadUnknownType(WirePayload)

C1_Witness ==
    /\ pc = "done"
    /\ WireTypeUrl = UnknownEventUrl
    /\ WirePayload = "{}"
    /\ message.v.attributes.payload = PayloadUnknownType("{}")

\* C2: a node-pool UpgradeAvailableEvent never reaches the Notifier, with or
\* without a webhook, and its log entry is still emitted; a node-pool
\* UpgradeEvent and a control-plane UpgradeAvailableEvent are posted.
C2_NodePoolUpgradeAvailableFiltered ==
    Decoded =>
        /\ IsNodePoolUpgradeAvailable(message.v) =>
               /\ posts = << >>
               /\ pc # "await"
               /\ pc = "done" => Len(logs) = 1 /\ Last(logs).text = fmt(message.v)
        /\ /\ pc = "done"
           /\ env.SLACK_WEBHOOK.some
           /\ message.v.data # ""
           /\ \/ /\ message.v.attributes.payload.kind = "UpgradeEvent"
                 /\ message.v.attributes.payload.p.resource_type = NodePool
              \/ /\ message.v.attributes.payload.kind = "UpgradeAvailableEvent"
                 /\ message.v.attributes.payload.p.resource_type = ControlPlane
           => Len(posts) = 1

C2_Witness ==
    /\ pc = "done"
    /\ env.SLACK_WEBHOOK.some
    /\ message.v.data # ""
    /\ IsNodePoolUpgradeAvailable(message.v)
    /\ posts = << >>
    /\ Len(logs) = 1
    /\ Last(logs).text = "Node pool projects/test-project/locations/us-central1/clusters/test-cluster/nodePools/pool-1 has new version 1.22.6-gke.300 available for upgrade in the REGULAR channel"

\* C3: the Notifier is invoked at most once per request and never again after
\* its attempt, failed or not; never without a webhook; exactly once when a
\* webhook is set and the message is neither filtered nor invalid.
C3_SingleAttemptState ==
    /\ Len(posts) <= 1
    /\ ~env.SLACK_WEBHOOK.some => posts = << >>
    /\ pc \in {"await", "done"}
           /\ env.SLACK_WEBHOOK.some
           /\ ~IsNodePoolUpgradeAvailable(message.v)
           /\ ~is_invalid(message.v)
           => Len(posts) = 1
    /\ pc \in {"extract", "handler", "rejected"} => posts = << >>

C3_SingleAttempt ==
    /\ []C3_SingleAttemptState
    /\ [][(pc \in {"await", "done"}) => (posts' = posts)]_vars

C3_Witness ==
    /\ pc = "done"
    /\ Len(posts) = 1
    /\ slack_response = Some("no_service")

\* C4: a delivery error neither aborts nor retries the request nor turns into
\* a request error: the error text is recorded, the handler completes, and it
\* emits the log entry it emits when delivery succeeds.
C4_DeliveryErrorState ==
    pc = "done" /\ Len(posts) = 1 =>
        /\ slack_response.some
        /\ Last(logs) = LogEvent(IF env.debug THEN "DEBUG" ELSE "INFO", log_entry.v,
                                 IF env.debug
                                 THEN Some([msg |-> message.v,
                                            subscription |-> psm.v.subscription,
                                            slack_message |-> slack_message,
                                            slack_response |-> slack_response])
                                 ELSE None)
        /\ log_entry.v = fmt(message.v)
        /\ slack_response.v \in {o.e : o \in {x \in PostOutcomes : ~x.ok}} =>
               /\ Len(logs) = 2
               /\ logs[1].level = "ERROR"
               /\ logs[1].text = "post to webhook failed: " \o slack_response.v
        /\ slack_response.v \in {o.v : o \in {x \in PostOutcomes : x.ok}} => Len(logs) = 1

C4_DeliveryError ==
    /\ []C4_DeliveryErrorState
    /\ [][(pc = "await") => (pc' = "done" /\ posts' = posts /\ log_entry' = log_entry)]_vars

C4_Witness ==
    /\ pc = "done"
    /\ slack_response = Some("invalid_blocks")
    /\ Len(logs) = 2
    /\ Last(logs).text = "Control plane projects/0123456789/locations/us-central1/clusters/test-cluster is upgrading from version 1.22.4-gke.1501 to 1.22.6-gke.300"

\* `data` wire texts that decode, with the text they decode to
WellFormedData ==
    { [wire |-> << >>, text |-> ""],
      [wire |-> <<"a","G","k","=">>, text |-> "hi"],
      [wire |-> <<"a","A","=","=">>, text |-> "h"],
      [wire |-> <<"w","6","k","=">>, text |-> "<195><169>"] }

\* the data is absent or one of the well-formed texts
DataIsWellFormed == WireHasData => \E d \in WellFormedData : WireData = d.wire

\* the text the data must decode to
ExpectedData ==
    IF WireHasData THEN (CHOOSE d \in WellFormedData : WireData = d.wire).text ELSE ""

DataSuffix(data) == IF data = "" THEN "" ELSE ": " \o data

\* the payload texts a schema rejects: no JSON at all, a field of the wrong
\* type, for UpgradeAvailableEvent a release channel without a known name, and
\* for the other two the array whose elements are an UpgradeAvailableEvent's
SchemaFailures(type_url) ==
    {TextEmpty, TextNotJson, TextWrongTypes}
        \cup (IF type_url = UpgradeAvailableEventUrl
              THEN {TextChannelExtended, TextChannelNoTag}
              ELSE {TextPositional})

\* nothing that is present in the request is malformed: what can be wrong
\* with it is only that a part is missing, empty or of an unknown type
OnlyAbsence ==
    /\ HasMessage
    /\ HasKey(req.v, "subscription")
    /\ WireHasAttrs => WireAttrsWellFormed
    /\ DataIsWellFormed
    /\ WireTypeUrl \in KnownTypeUrls /\ WirePayload # ""
           => WirePayload \notin SchemaFailures(WireTypeUrl)

NothingHappened ==
    /\ pc = "rejected"
    /\ psm = None
    /\ message = None
    /\ log_entry = None
    /\ slack_message = None
    /\ slack_response = None
    /\ logs = << >>
    /\ posts = << >>

\* C5: semantic absence is never a decode error: a request in which nothing
\* present is malformed (attributes, data or type_url missing, type_url
\* unknown, payload empty or absent under any type_url) decodes to a Message.
C5_AbsenceNeverError ==
    pc # "extract" /\ OnlyAbsence => Decoded

\* C6: data that is present but is not valid base64, or whose bytes are not
\* valid UTF-8, fails the decode of the whole envelope: no Message is produced.
C6_BadDataIsFatal ==
    /\ /\ pc # "extract"
       /\ WireHasData
       /\ ~(Base64Decode(WireData).ok /\ Utf8Valid(Base64Decode(WireData).v))
       => NothingHappened
    /\ /\ pc # "extract"
       /\ WireHasData
       /\ WireData \in {<<"a","G","k">>, <<"a","G","=","=">>, <<"a","G","l","=">>,
                        <<"!","a","A","=">>, <<"=","=","=","=">>,
                        <<"/","w","=","=">>, <<"a","a","a","a">>}
       => NothingHappened

C6_Witness ==
    /\ pc = "rejected"
    /\ ~WireHasAttrs
    /\ WireHasData
    /\ WireData = <<"/","w","=","=">>
    /\ Base64Decode(WireData) = Ok(<<255>>)

\* C7: a known type_url whose payload string fails that event's schema fails
\* the whole decode: the request is rejected, and nothing is rendered, logged
\* or posted for it.
C7_KnownTypeBadPayloadIsFatal ==
    /\ pc # "extract"
    /\ WireAttrsWellFormed
    /\ WireTypeUrl \in KnownTypeUrls
    /\ WirePayload \in SchemaFailures(WireTypeUrl)
    => NothingHappened

C7_Witness ==
    /\ pc = "rejected"
    /\ WireTypeUrl = UpgradeEventUrl
    /\ WirePayload = TextWrongTypes
    /\ WireHasData
    /\ WireData = <<"a","G","k","=">>

\* the strings a summary puts before and after the resource URI
BulletinIds == {"", "GCP-2022-005", "gcp-2022-008", "gcp-2022-009"}

Versions == {"", "1.22.6-gke.300", "1.22.4-gke.1501"}

SummaryPrefixes ==
    {"Control plane ", "Node pool "}
        \cup {"Security bulletin " \o id \o " affecting " : id \in BulletinIds}

SummarySuffixes ==
    {" has been issued"}
        \cup {" has new version " \o v \o " available for upgrade in the " \o c \o " channel" :
                 v \in Versions, c \in ReleaseChannelNames}
        \cup {" is upgrading from version " \o a \o " to " \o b : a \in Versions, b \in Versions}
        \cup {" is upgrading from " \o a \o " to " \o b : a \in Versions, b \in Versions}

\* the text is one line with the part in it
Embeds(text, part) ==
    \E pre \in SummaryPrefixes, suf \in SummarySuffixes : text = pre \o part \o suf

KnownKinds == {"SecurityBulletinEvent", "UpgradeAvailableEvent", "UpgradeEvent"}

ErrorsOfLogMessage(attr) ==
    /\ attr.payload.kind = "UnknownType" =>
           log_message(attr) = Err("Unknown message type " \o BT \o attr.type_url \o BT
                                       \o " encountered")
    /\ attr.payload.kind = "None" => log_message(attr) = Err("Empty or invalid payload")

\* C8 as claimed: log_message() is Ok with a summary embedding resource_uri()
\* for every payload of the three known kinds, and Err for UnknownType and None.
C8_Original_LogMessage ==
    Decoded =>
        /\ message.v.attributes.payload.kind \in KnownKinds =>
               /\ log_message(message.v.attributes).ok
               /\ Embeds(log_message(message.v.attributes).v, resource_uri(message.v.attributes))
        /\ ErrorsOfLogMessage(message.v.attributes)

\* C8: log_message() is Ok for every payload of the three known kinds; its
\* summary embeds resource_uri() for a bulletin and for an upgrade event whose
\* resource type is ControlPlane or NodePool, and is "Unknown resource type
\* 's' encountered", without the URI, for a resource type Unknown(s); it is
\* Err("Unknown message type '<type_url>' encountered") for UnknownType and
\* Err("Empty or invalid payload") for None.
C8_LogMessage ==
    Decoded =>
        /\ message.v.attributes.payload.kind \in KnownKinds =>
               /\ log_message(message.v.attributes).ok
               /\ \/ message.v.attributes.payload.kind = "SecurityBulletinEvent"
                  \/ message.v.attributes.payload.p.resource_type \in {ControlPlane, NodePool}
                  => Embeds(log_message(message.v.attributes).v,
                            resource_uri(message.v.attributes))
               /\ /\ message.v.attributes.payload.kind # "SecurityBulletinEvent"
                  /\ message.v.attributes.payload.p.resource_type \notin {ControlPlane, NodePool}
                  => log_message(message.v.attributes).v =
                         "Unknown resource type " \o BT
                             \o message.v.attributes.payload.p.resource_type.name
                             \o BT \o " encountered"
        /\ ErrorsOfLogMessage(message.v.attributes)

C8_Witness ==
    /\ pc = "done"
    /\ message.v.attributes.payload.kind = "UpgradeEvent"
    /\ message.v.attributes.payload.p.resource_type = Unknown("SOME_TYPE")
    /\ log_message(message.v.attributes) =
           Ok("Unknown resource type " \o BT \o "SOME_TYPE" \o BT \o " encountered")

\* C9: the log entry is the Ok text of log_message(); on Err it is the error
\* text, followed by ": <data>" exactly when data is non-empty; it is never
\* empty.
C9_LogEntry ==
    Decoded =>
        /\ log_entry.some
        /\ log_entry.v # ""
        /\ log_message(message.v.attributes).ok =>
               log_entry.v = log_message(message.v.attributes).v
        /\ ~log_message(message.v.attributes).ok /\ message.v.data # "" =>
               log_entry.v = log_message(message.v.attributes).e \o ": " \o message.v.data
        /\ ~log_message(message.v.attributes).ok /\ message.v.data = "" =>
               log_entry.v = log_message(message.v.attributes).e

C9_Witness ==
    /\ pc = "done"
    /\ message.v.data = "hi"
    /\ log_entry = Some("Unknown message type " \o BT \o UnknownEventUrl \o BT
                            \o " encountered: hi")

\* C10 as claimed: empty data, absent attributes or an unknown type all give
\* the log entry "Empty or invalid payload", with ": <data>" when data is
\* non-empty.
C10_Original_InvalidLogEntry ==
    /\ Decoded
    /\ \/ message.v.data = ""
       \/ ~WireHasAttrs
       \/ WireTypeUrl \notin KnownTypeUrls
    => log_entry.v = "Empty or invalid payload" \o DataSuffix(message.v.data)

\* C10: when the attributes are absent, or the type_url is not a known one and
\* the payload string is empty or absent, the log entry is "Empty or invalid
\* payload", followed by ": <data>" exactly when data is non-empty.
C10_InvalidLogEntry ==
    /\ Decoded
    /\ \/ ~WireHasAttrs
       \/ WireTypeUrl \notin KnownTypeUrls /\ WirePayload = ""
    => /\ DataIsWellFormed
       /\ message.v.data = ExpectedData
       /\ log_entry.v = "Empty or invalid payload" \o DataSuffix(ExpectedData)

C10_Witness ==
    /\ pc = "done"
    /\ ~WireHasAttrs
    /\ WireHasData
    /\ WireData = <<"a","G","k","=">>
    /\ log_entry = Some("Empty or invalid payload: hi")

\* the project name the renderers must use, read off the request and the environment
WireProjectName == IF env.GCP_PROJECT.some THEN env.GCP_PROJECT.v ELSE WireAttr("project_id")

\* projects/<project_name()>/locations/<cluster_location>/clusters/<cluster_name>
WireClusterUri ==
    "projects/" \o WireProjectName \o "/locations/" \o WireAttr("cluster_location")
        \o "/clusters/" \o WireAttr("cluster_name")

IsUpgrade(attr) == attr.payload.kind \in {"UpgradeAvailableEvent", "UpgradeEvent"}

\* a NodePool-typed UpgradeAvailableEvent or UpgradeEvent
IsNodePoolUpgrade(attr) == IsUpgrade(attr) /\ attr.payload.p.resource_type = NodePool

\* a NodePool-typed upgrade event that carries a non-empty resource
CarriesResource(attr) ==
    /\ IsNodePoolUpgrade(attr)
    /\ attr.payload.p.resource.some
    /\ Join(attr.payload.p.resource.v) # ""

\* C11: resource_uri() is the resource field verbatim for a NodePool-typed
\* upgrade event carrying a non-empty resource, and the synthesized
\* projects/.../locations/.../clusters/... string in every other case, a
\* NodePool event with an absent or empty resource included.
C11_ResourceUri ==
    Decoded =>
        /\ CarriesResource(message.v.attributes) =>
               resource_uri(message.v.attributes)
                   = Join(message.v.attributes.payload.p.resource.v)
        /\ ~CarriesResource(message.v.attributes) =>
               resource_uri(message.v.attributes) = WireClusterUri

ConsoleUrl == "https://console.cloud.google.com/kubernetes/"

\* the node-pool names in the payload texts whose resourceType is NODE_POOL
NodePoolNames ==
    { [text |-> TextNodePool, name |-> "pool-1"],
      [text |-> TextNodePoolNested, name |-> "pools/nodePools/pool-2"] }

\* the request is a NodePool-typed upgrade event with a node-pool name in its resource
WireHasNodePoolName ==
    /\ WireTypeUrl \in {UpgradeAvailableEventUrl, UpgradeEventUrl}
    /\ \E e \in NodePoolNames : WirePayload = e.text

WireNodePoolName == (CHOOSE e \in NodePoolNames : WirePayload = e.text).name

NodePoolPage(name) ==
    ConsoleUrl \o "nodepool/" \o WireAttr("cluster_location") \o "/" \o WireAttr("cluster_name")
        \o "/" \o name \o "?project=" \o WireProjectName

ClusterPage ==
    ConsoleUrl \o "clusters/details/" \o WireAttr("cluster_location") \o "/"
        \o WireAttr("cluster_name") \o "?project=" \o WireProjectName

\* a node-pool name can be extracted from the payload's resource field
NameExtractable(attr) == IsUpgrade(attr) /\ node_pool_name(attr.payload.p).some

\* C12 as claimed: resource_url() is the node-pool page whenever a node-pool
\* name can be extracted from the resource field, whatever the resource type,
\* and the cluster page otherwise.
C12_Original_ResourceUrl ==
    Decoded =>
        /\ NameExtractable(message.v.attributes) =>
               resource_url(message.v.attributes)
                   = NodePoolPage(node_pool_name(message.v.attributes.payload.p).v)
        /\ ~NameExtractable(message.v.attributes) =>
               resource_url(message.v.attributes) = ClusterPage

\* C12: resource_url() is the node-pool console page, naming what follows the
\* first "nodePools/" of the resource, when the payload is an UpgradeAvailableEvent
\* or UpgradeEvent of resource type NodePool whose resource holds "nodePools/",
\* and the cluster detail page otherwise; both are built from cluster_location,
\* cluster_name and project_name().
C12_ResourceUrl ==
    Decoded =>
        /\ WireHasNodePoolName =>
               resource_url(message.v.attributes) = NodePoolPage(WireNodePoolName)
        /\ ~WireHasNodePoolName => resource_url(message.v.attributes) = ClusterPage

C12_Witness ==
    /\ pc = "done"
    /\ env.GCP_PROJECT.some
    /\ WireTypeUrl = UpgradeEventUrl
    /\ WirePayload = TextNodePoolNested
    /\ resource_url(message.v.attributes)
           = "https://console.cloud.google.com/kubernetes/nodepool/us-central1/test-cluster/pools/nodePools/pool-2?project=test-project"

\* the message as decoded, before the handler's overlay
Before == psm.v.message

\* the message the handler works with, after the overlay (if any)
After == message.v

\* the decoded message with n for its project_id and no override
Renamed(n) == [Before EXCEPT !.attributes.project_id = n]

\* C13: with_project_name(n) changes project_name to n and nothing else in
\* the Message; project_name() is project_id before and n after, and each
\* derived string is the one the message would have with n as its project_id.
C13_WithProjectName ==
    /\ Decoded /\ env.GCP_PROJECT.some =>
           /\ DOMAIN After = DOMAIN Before
           /\ \A f \in DOMAIN Before \ {"attributes"} : After[f] = Before[f]
           /\ DOMAIN After.attributes = DOMAIN Before.attributes
           /\ \A k \in DOMAIN Before.attributes \ {"project_name"} :
                  After.attributes[k] = Before.attributes[k]
           /\ Before.attributes.project_name = None
           /\ After.attributes.project_name = Some(env.GCP_PROJECT.v)
           /\ project_name(Before.attributes) = Before.attributes.project_id
           /\ project_name(Before.attributes) = WireAttr("project_id")
           /\ project_name(After.attributes) = env.GCP_PROJECT.v
           /\ resource_uri(After.attributes)
                  = resource_uri(Renamed(env.GCP_PROJECT.v).attributes)
           /\ resource_url(After.attributes)
                  = resource_url(Renamed(env.GCP_PROJECT.v).attributes)
           /\ fmt(After) = fmt(Renamed(env.GCP_PROJECT.v))
           /\ WebhookMessage(After) = WebhookMessage(Renamed(env.GCP_PROJECT.v))
    /\ Decoded /\ ~env.GCP_PROJECT.some =>
           /\ After = Before
           /\ project_name(After.attributes) = WireAttr("project_id")

C13_Witness ==
    /\ pc = "done"
    /\ env.GCP_PROJECT = Some("test-project")
    /\ WireTypeUrl = UpgradeEventUrl
    /\ WirePayload = TextControlPlane
    /\ Before.attributes.project_id = "0123456789"
    /\ After.attributes.project_id = "0123456789"
    /\ resource_uri(Before.attributes)
           = "projects/0123456789/locations/us-central1/clusters/test-cluster"
    /\ resource_uri(After.attributes)
           = "projects/test-project/locations/us-central1/clusters/test-cluster"

\* the payload texts whose resourceType is NODE_POOL
NodePoolTexts ==
    {TextNodePool, TextNodePoolNoResource, TextNodePoolEmptyResource,
     TextNodePoolClusterResource, TextNodePoolNested, TextPositional}

\* C14: is_node_pool_upgrade_available_event() is true exactly for an
\* UpgradeAvailableEvent of resource type NodePool; it is false for a NodePool
\* UpgradeEvent, for an UpgradeAvailableEvent of another resource type, and for
\* bulletin, unknown and empty payloads.
C14_IsNodePoolUpgradeAvailable ==
    Decoded =>
        /\ is_node_pool_upgrade_available_event(message.v.attributes)
               = (WireTypeUrl = UpgradeAvailableEventUrl /\ WirePayload \in NodePoolTexts)
        /\ is_node_pool_upgrade_available_event(message.v.attributes)
               = IsNodePoolUpgradeAvailable(message.v)
        /\ message.v.attributes.payload.kind
               \in {"UpgradeEvent", "SecurityBulletinEvent", "UnknownType", "None"}
               => ~is_node_pool_upgrade_available_event(message.v.attributes)

C14_Witness ==
    /\ pc = "done"
    /\ WireTypeUrl = UpgradeEventUrl
    /\ WirePayload = TextNodePool
    /\ message.v.attributes.payload.p.resource_type = NodePool
    /\ ~is_node_pool_upgrade_available_event(message.v.attributes)

\* the fields written in the payload of the request
WireFields == ParseJson(WirePayload).v.v

\* the fields of each schema: wire key, field and the field's default
FieldDefault(key, field, default) == [key |-> key, field |-> field, default |-> default]

SchemaDefaults(type_url) ==
    IF type_url = SecurityBulletinEventUrl
    THEN {FieldDefault("affectedSupportedMinors", "affected_supported_minors", << >>),
          FieldDefault("briefDescription", "brief_description", ""),
          FieldDefault("bulletinId", "bulletin_id", ""),
          FieldDefault("bulletinUri", "bulletin_uri", ""),
          FieldDefault("cveIds", "cve_ids", << >>),
          FieldDefault("manualStepsRequired", "manual_steps_required", FALSE),
          FieldDefault("patchedVersions", "patched_versions", << >>),
          FieldDefault("resourceTypeAffected", "resource_type_affected", ""),
          FieldDefault("severity", "severity", ""),
          FieldDefault("suggestedUpgradeTarget", "suggested_upgrade_target", "")}
    ELSE IF type_url = UpgradeAvailableEventUrl
    THEN {FieldDefault("releaseChannel", "release_channel", "UNSPECIFIED"),
          FieldDefault("resource", "resource", [some |-> FALSE]),
          FieldDefault("resourceType", "resource_type",
                       [rt |-> "Unknown", name |-> "UPGRADE_RESOURCE_TYPE_UNSPECIFIED"]),
          FieldDefault("version", "version", "")}
    ELSE {FieldDefault("currentVersion", "current_version", ""),
          FieldDefault("operation", "operation", ""),
          FieldDefault("operationStartTime", "operation_start_time", ""),
          FieldDefault("resource", "resource", [some |-> FALSE]),
          FieldDefault("resourceType", "resource_type",
                       [rt |-> "Unknown", name |-> "UPGRADE_RESOURCE_TYPE_UNSPECIFIED"]),
          FieldDefault("targetVersion", "target_version", "")}

\* the payload of the request is written from fields of its type_url's schema
IsFieldRequest ==
    /\ WireAttrsWellFormed
    /\ WireTypeUrl \in KnownTypeUrls
    /\ WirePayload \in FieldTexts
    /\ DOMAIN WireFields \subseteq {d.key : d \in SchemaDefaults(WireTypeUrl)}

\* the release channel of the request, if written, names one of the four channels
WireChannelNamed ==
    "releaseChannel" \in DOMAIN WireFields =>
        /\ "channel" \in DOMAIN WireFields["releaseChannel"].v
        /\ WireFields["releaseChannel"].v["channel"].v
               \in {"UNSPECIFIED", "RAPID", "REGULAR", "STABLE"}

\* C15: decoding an event schema is permissive: a payload omitting any subset
\* of the schema's fields decodes to the variant of its type_url, with every
\* omitted field at its default.
C15_PermissiveDecode ==
    pc # "extract" /\ IsFieldRequest /\ WireChannelNamed =>
        /\ Decoded
        /\ message.v.attributes.payload.kind \in KindOfTypeUrl(WireTypeUrl)
        /\ DOMAIN message.v.attributes.payload.p
               = {d.field : d \in SchemaDefaults(WireTypeUrl)}
        /\ \A d \in SchemaDefaults(WireTypeUrl) :
               d.key \notin DOMAIN WireFields =>
                   message.v.attributes.payload.p[d.field] = d.default

C15_Witness ==
    /\ pc = "done"
    /\ WireTypeUrl = UpgradeAvailableEventUrl
    /\ WirePayload = "{\"version\":\"1.22.6-gke.300\"}"
    /\ message.v.attributes.payload.p.version = "1.22.6-gke.300"
    /\ message.v.attributes.payload.p.release_channel = "UNSPECIFIED"
    /\ message.v.attributes.payload.p.resource = None
    /\ message.v.attributes.payload.p.resource_type
           = [rt |-> "Unknown", name |-> "UPGRADE_RESOURCE_TYPE_UNSPECIFIED"]

\* the channel the claim gives the releaseChannel of the request
WireChannel ==
    IF /\ "releaseChannel" \in DOMAIN WireFields
       /\ "channel" \in DOMAIN WireFields["releaseChannel"].v
       /\ WireFields["releaseChannel"].v["channel"].v \in {"RAPID", "REGULAR", "STABLE"}
    THEN WireFields["releaseChannel"].v["channel"].v
    ELSE "UNSPECIFIED"

\* C16: ReleaseChannel decodes from {"channel": NAME} to Rapid, Regular or
\* Stable for those names and to Unspecified for any other NAME, for an object
\* without a channel key and for an absent releaseChannel; the decode never fails.
C16_ReleaseChannel ==
    pc # "extract" /\ IsFieldRequest /\ WireTypeUrl = UpgradeAvailableEventUrl =>
        /\ Decoded
        /\ message.v.attributes.payload.kind = "UpgradeAvailableEvent"
        /\ message.v.attributes.payload.p.release_channel = WireChannel
        /\ ReleaseChannelFmt(message.v.attributes.payload.p.release_channel) = WireChannel

\* the request is an upgrade event written from the fields of its schema
IsUpgradeFieldRequest ==
    /\ IsFieldRequest
    /\ WireTypeUrl \in {UpgradeAvailableEventUrl, UpgradeEventUrl}
    /\ WireChannelNamed

\* C17: ResourceType decodes "MASTER" to ControlPlane, "NODE_POOL" to NodePool
\* and any other string s to Unknown(s), s kept verbatim; a missing
\* resourceType decodes to Unknown("UPGRADE_RESOURCE_TYPE_UNSPECIFIED"); no
\* string makes the decode fail.
C17_ResourceType ==
    pc # "extract" /\ IsUpgradeFieldRequest =>
        /\ Decoded
        /\ "resourceType" \notin DOMAIN WireFields =>
               message.v.attributes.payload.p.resource_type
                   = [rt |-> "Unknown", name |-> "UPGRADE_RESOURCE_TYPE_UNSPECIFIED"]
        /\ "resourceType" \in DOMAIN WireFields =>
               /\ WireFields["resourceType"].t = "str"
               /\ WireFields["resourceType"].v = "MASTER" =>
                      message.v.attributes.payload.p.resource_type = [rt |-> "ControlPlane"]
               /\ WireFields["resourceType"].v = "NODE_POOL" =>
                      message.v.attributes.payload.p.resource_type = [rt |-> "NodePool"]
               /\ WireFields["resourceType"].v \notin {"MASTER", "NODE_POOL"} =>
                      message.v.attributes.payload.p.resource_type
                          = [rt |-> "Unknown", name |-> WireFields["resourceType"].v]

C17_Witness ==
    /\ pc = "done"
    /\ IsUpgradeFieldRequest
    /\ WireTypeUrl = UpgradeEventUrl
    /\ "resourceType" \in DOMAIN WireFields
    /\ WireFields["resourceType"].v = "node_pool"
    /\ message.v.attributes.payload.p.resource_type = [rt |-> "Unknown", name |-> "node_pool"]

\* the request is an upgrade event whose resourceType is a string other than
\* MASTER and NODE_POOL
WireHasUnknownResourceType ==
    /\ IsUpgradeFieldRequest
    /\ "resourceType" \in DOMAIN WireFields
    /\ WireFields["resourceType"].v \notin {"MASTER", "NODE_POOL"}

\* C18: an UpgradeAvailableEvent or UpgradeEvent whose resourceType is an
\* unrecognized string s decodes, and its log entry is exactly "Unknown
\* resource type 's' encountered", without a data suffix, with or without a
\* project-name override.
C18_UnknownResourceTypeLogEntry ==
    pc # "extract" /\ WireHasUnknownResourceType =>
        /\ Decoded
        /\ log_entry = Some("Unknown resource type " \o BT \o WireFields["resourceType"].v
                                \o BT \o " encountered")
        /\ pc = "done" => Last(logs).text = log_entry.v

C18_Witness ==
    /\ pc = "done"
    /\ env.GCP_PROJECT.some
    /\ WireTypeUrl = UpgradeAvailableEventUrl
    /\ WireHasUnknownResourceType
    /\ message.v.data = "hi"
    /\ Last(logs).text = "Unknown resource type " \o BT \o "SOME_TYPE" \o BT \o " encountered"


\* the part occurs in the text, as a run of consecutive characters
Contains(text, part) ==
    \E i \in 1..(Len(text) - Len(part) + 1) : SubSeq(text, i, i + Len(part) - 1) = part

\* the plain-text projection of the handler's message
PlainText == slack_plain_text(message.v)

\* C19 as claimed: the plain-text projection includes cluster_name for every
\* payload variant, the invalid or empty payload included, and never includes
\* the full resource URI.
C19_Original_PlainText ==
    Decoded =>
        /\ Contains(PlainText, message.v.attributes.cluster_name)
        /\ ~Contains(PlainText, resource_uri(message.v.attributes))

\* other projects and locations a message could name; the first two change
\* the synthesized resource URI
OtherProjects == {"", "another-project", "projects/p/locations/l/clusters/c"}
OtherLocations == {"", "europe-north1"}

\* the message with another project_id and cluster_location
Moved(m, project, location) ==
    [m EXCEPT !.attributes.project_id = project, !.attributes.cluster_location = location]

\* the pool name a NodePool event's text carries
PoolNameOf(p) == IF p.resource_type = NodePool THEN UnwrapOr(node_pool_name(p), "") ELSE ""

\* other resources an upgrade event could carry, among them one naming the
\* same pool by another path
OtherResources(p) ==
    {None, Some(<< >>), Some(<<"pool">>), Some(<<"test-cluster">>), Some(ClusterPath),
     Some(NodePoolPath), Some(<<"nodePools/", PoolNameOf(p)>>),
     Some(<<"somewhere/else/", "nodePools/", PoolNameOf(p)>>)}

\* the upgrade message with another resource
WithResource(m, r) == [m EXCEPT !.attributes.payload.p.resource = r]

\* the text of m is not built from its resource URI: it is the same under
\* every other project and location, and under every other resource that
\* names the same pool (any other resource when the event is not a NodePool one)
BuiltWithoutUri(m) ==
    /\ \A project \in OtherProjects, location \in OtherLocations :
           slack_plain_text(Moved(m, project, location)) = slack_plain_text(m)
    /\ m.attributes.payload.kind \in {"UpgradeAvailableEvent", "UpgradeEvent"} =>
           \A r \in OtherResources(m.attributes.payload.p) :
               PoolNameOf(WithResource(m, r).attributes.payload.p) = PoolNameOf(m.attributes.payload.p)
                   => slack_plain_text(WithResource(m, r)) = slack_plain_text(m)

\* C19: the plain-text projection includes cluster_name for every payload
\* variant but the invalid or empty payload, whose text is the fixed sentence
\* ":gear: empty or invalid payload"; it is built from cluster_name and not
\* from resource_uri(): it depends neither on project_id nor on
\* cluster_location, and on the resource only through a NodePool event's pool name.
C19_PlainText ==
    Decoded =>
        /\ message.v.attributes.payload.kind # "None" =>
               Contains(PlainText, message.v.attributes.cluster_name)
        /\ message.v.attributes.payload.kind = "None" =>
               PlainText = ":gear: empty or invalid payload"
        /\ BuiltWithoutUri(message.v)

\* a named cluster's node-pool upgrade event with a pool name: the text has the
\* cluster's name, and it is the text of the same event under another project
\* and under another path to the same pool, whose resource URIs differ
C19_Witness ==
    /\ Decoded
    /\ message.v.attributes.cluster_name # ""
    /\ message.v.attributes.payload.kind \in {"UpgradeEvent", "UpgradeAvailableEvent"}
    /\ message.v.attributes.payload.p.resource_type = NodePool
    /\ node_pool_name(message.v.attributes.payload.p).some
    /\ Contains(PlainText, message.v.attributes.cluster_name)
    /\ \E r \in OtherResources(message.v.attributes.payload.p) :
           /\ resource_uri(WithResource(message.v, r).attributes) # resource_uri(message.v.attributes)
           /\ slack_plain_text(WithResource(message.v, r)) = PlainText
    /\ \E project \in OtherProjects :
           /\ resource_uri(WithResource(Moved(message.v, project, ""), None).attributes)
                  # resource_uri(WithResource(message.v, None).attributes)
           /\ slack_plain_text(WithResource(Moved(message.v, project, ""), None))
                  = slack_plain_text(WithResource(message.v, None))


\* the chat-card of the handler's message, and its blocks between the first and the last
Card == slack_blocks(message.v)

Details == SubSeq(Card, 2, Len(Card) - 1)

\* a block of the card is the "patched versions / suggested upgrade target" one
HasPatchedBlock ==
    \E i \in DOMAIN Card :
        /\ "fields" \in DOMAIN Card[i]
        /\ Contains(Card[i].fields[1].text, "*Patched Versions*")
        /\ Contains(Card[i].fields[2].text, "*Suggested Upgrade Target*")

\* C20: the chat-card of every decoded Message is a block list whose first
\* block is the header section (a section whose mrkdwn text is the block text)
\* and whose last block is a context block with the one element resource_uri();
\* a bulletin card has the patched-versions block iff patched_versions or
\* suggested_upgrade_target is non-empty, and then 5 detail blocks, else 4;
\* every other variant has exactly 2 detail blocks. The card posted to the
\* webhook is this card.
C20_ChatCard ==
    Decoded =>
        /\ Len(Card) >= 3
        /\ Card[1] = [type |-> "section",
                      text |-> [type |-> "mrkdwn", text |-> slack_block_text(message.v)]]
        /\ Card[Len(Card)] =
               [type |-> "context",
                elements |-> <<[type |-> "mrkdwn",
                                text |-> resource_uri(message.v.attributes)]>>]
        /\ \A i \in DOMAIN Details : Details[i].type = "section"
        /\ message.v.attributes.payload.kind = "SecurityBulletinEvent" =>
               /\ HasPatchedBlock <=>
                      \/ message.v.attributes.payload.p.patched_versions # << >>
                      \/ message.v.attributes.payload.p.suggested_upgrade_target # ""
               /\ Len(Details) = IF HasPatchedBlock THEN 5 ELSE 4
        /\ message.v.attributes.payload.kind # "SecurityBulletinEvent" =>
               /\ ~HasPatchedBlock
               /\ Len(Details) = 2
        /\ slack_message.some => slack_message.v.blocks = Card

\* a bulletin with a suggested target and no patched version was posted with
\* its five detail blocks
C20_Witness ==
    /\ slack_message.some
    /\ message.v.attributes.payload.kind = "SecurityBulletinEvent"
    /\ message.v.attributes.payload.p.patched_versions = << >>
    /\ message.v.attributes.payload.p.suggested_upgrade_target # ""
    /\ Len(slack_message.v.blocks) = 7


\* C21: a request whose body is the empty JSON object {} is accepted, not
\* rejected: the extractor hands it to the handler, which returns its unit
\* value (a success status with an empty body).
C21_EmptyObjectAccepted ==
    req = JObj(NoKeys) /\ pc # "extract" => pc # "rejected" /\ psm.some


\* what request i's handler has as `message` when the request is handled
\* alone: the extractor's value under the overlay
AloneMessage(i) == Overlay(DePubSubMessage(req[i]).v.message)

\* whether the handler of message m, running alone, calls the Notifier
AloneCalls(m) ==
    /\ ~is_invalid(m)
    /\ env.SLACK_WEBHOOK.some
    /\ ~is_node_pool_upgrade_available_event(m.attributes)

\* the webhook POSTs and the tracing events issued for request i, in order
PostsOf(i) == SelectSeq(posts, LAMBDA p : p.of = i)

EventsOf(i) == SelectSeq(logs, LAMBDA e : e.of = i)

\* request i has passed the point where it posts or skips the post
Decided(i) == pc[i] \in {"await", "failed", "done"}

\* request i has finished, or its next step can be taken now: the extractor
\* rejects or accepts its body, and the handler's step is enabled
NotBlocked(i) ==
    \/ pc[i] \in {"done", "rejected"}
    \/ pc[i] = "extract" /\ (DePubSubMessage(req[i]).ok \/ ENABLED ExtractRejectOf(i))
    \/ ENABLED (\/ HandlerInvalidOf(i)
                \/ HandlerPostOf(i)
                \/ HandlerSkipOf(i)
                \/ PostOkOf(i)
                \/ PostErrOf(i)
                \/ CloseOf(i))

\* C22: several requests in flight share no mutable state: under every
\* interleaving, the suspension of one in its outbound delivery included,
\* each request's log entry, its decision whether to call the Notifier and
\* the card it sends are those of the request handled alone (its `message`
\* is the extractor's value under the overlay, and entry, decision and card
\* are the functions of that message), and a request that has not finished
\* can always take its next step, whatever the others do.
C22_Independent ==
    \A i \in Reqs :
        /\ pc[i] = "rejected" => ~DePubSubMessage(req[i]).ok
        /\ pc[i] \notin {"extract", "rejected"} =>
               /\ message[i] = Some(AloneMessage(i))
               /\ log_entry[i] = Some(fmt(message[i].v))
        /\ Decided(i) =>
               /\ Len(PostsOf(i)) = IF AloneCalls(message[i].v) THEN 1 ELSE 0
               /\ slack_message[i].some <=> AloneCalls(message[i].v)
        /\ ~Decided(i) => PostsOf(i) = << >>
        /\ \A k \in DOMAIN PostsOf(i) :
               /\ PostsOf(i)[k].what.url = env.SLACK_WEBHOOK.v
               /\ PostsOf(i)[k].what.body = WebhookMessage(message[i].v)
               /\ slack_message[i] = Some(PostsOf(i)[k].what.body)
        /\ pc[i] = "done" =>
               /\ EventsOf(i) # << >>
               /\ EventsOf(i)[Len(EventsOf(i))].what.text = fmt(message[i].v)
        /\ NotBlocked(i)

\* two requests with different cards: the first posted its card first and is
\* still suspended in its delivery, the second posted later and has already
\* finished with its log entry
C22_Witness ==
    /\ pc[1] = "await"
    /\ pc[2] = "done"
    /\ Len(posts) = 2
    /\ posts[1].of = 1
    /\ posts[2].of = 2
    /\ posts[1].what.body # posts[2].what.body
    /\ posts[1].what.body = WebhookMessage(AloneMessage(1))
    /\ posts[2].what.body = WebhookMessage(AloneMessage(2))
    /\ EventsOf(1) = << >>
    /\ EventsOf(2) # << >>


\* C23: a message the handler judges invalid makes it return early after one
\* error-level event whose text is the log entry: no card is rendered, the
\* Notifier is never called and nothing else is logged, also when a
\* destination URL is configured.
C23_InvalidEarlyReturn ==
    Decoded /\ is_invalid(message.v) =>
        /\ pc \in {"handler", "done"}
        /\ slack_message = None
        /\ slack_response = None
        /\ posts = << >>
        /\ pc = "handler" => logs = << >>
        /\ pc = "done" =>
               /\ Len(logs) = 1
               /\ logs[1].level = "ERROR"
               /\ logs[1].text = log_entry.v

\* an invalid message was handled with a destination configured
C23_Witness ==
    /\ pc = "done"
    /\ is_invalid(message.v)
    /\ env.SLACK_WEBHOOK.some
    /\ Len(logs) = 1
    /\ logs[1].level = "ERROR"


\* how many of the events emitted so far have the log entry as their text
Emitted == Cardinality({k \in DOMAIN logs : logs[k].text = log_entry.v})

\* the log entry is computed on entry, before any delivery attempt, from the
\* message alone; it is not emitted while the handler runs or awaits the
\* delivery, and it has been emitted exactly once when the handler has returned
EmittedOnceAtReturn ==
    Decoded =>
        /\ log_entry = Some(fmt(message.v))
        /\ pc \in {"handler", "await"} => Emitted = 0
        /\ pc = "await" => posts # << >>
        /\ pc = "done" =>
               /\ Emitted = 1
               /\ logs[Len(logs)].text = log_entry.v
               /\ slack_message.some => slack_response.some

\* C24: every request that decodes eventually emits its log entry exactly
\* once, on every path through the handler (invalid message, filtered
\* node-pool UpgradeAvailableEvent, no destination, delivery succeeded,
\* delivery failed), the outbound call returning; the entry is computed before
\* the delivery attempt, is emitted only after the attempt has finished, and
\* its text does not change with the delivery outcome.
C24_LogEntryEmittedOnce ==
    /\ []EmittedOnceAtReturn
    /\ [][pc # "extract" => log_entry' = log_entry /\ message' = message]_vars
    /\ Decoded ~> (pc = "done" /\ Emitted = 1)

\* a delivery failed: the failure was logged, then the log entry
C24_Witness ==
    /\ pc = "done"
    /\ Len(posts) = 1
    /\ Len(logs) = 2
    /\ logs[1].level = "ERROR"
    /\ logs[1].text # log_entry.v
    /\ logs[2].text = log_entry.v
    /\ slack_response \in {Some(o.e) : o \in {x \in PostOutcomes : ~x.ok}}

====
